---- MODULE Spec2Model ----
(***************************************************************************)
(* Model of the sensecam-control camera clients.                           *)
(*                                                                         *)
(*   CameraControl        src/sensecam_control/vapix_control.py            *)
(*   CameraConfiguration  src/sensecam_control/vapix_config.py             *)
(*   CameraControl        src/sensecam_control/onvif_control.py (ONVIF)    *)
(*   capture loop         src/example.py                                   *)
(*                                                                         *)
(* A Python value is a tuple: None is <<>> and a value v is <<s>>, where   *)
(* s is the text str(v) puts on the wire.  Response bodies are strings and *)
(* are parsed character by character, as the code does.                    *)
(***************************************************************************)
EXTENDS Integers, Sequences, FiniteSets, TLC

VARIABLES cam, clock, alive, call, sent, result, moving, device, onvif, tasks, worker

vars == <<cam, clock, alive, call, sent, result, moving, device, onvif, tasks, worker>>

(***************************************************************************)
(* Bounds.                                                                 *)
(***************************************************************************)
MaxClock == 1

\* The number of presets the camera can store.
MaxPresets == 2

(***************************************************************************)
(* Python values and strings.                                              *)
(***************************************************************************)
None == <<>>

Some(s) == <<s>>

\* str(v): the text of a value; str(None) is the four letters None.
Str(v) == IF v = None THEN "None" ELSE v[1]

Min(S) == CHOOSE m \in S : \A n \in S : m <= n

\* s.find(sep) from position from, 1-based; 0 when sep does not occur.
IndexOf(s, sep, from) ==
    LET cands == {i \in from..(Len(s) - Len(sep) + 1) :
                      SubSeq(s, i, i + Len(sep) - 1) = sep}
    IN  IF cands = {} THEN 0 ELSE Min(cands)

Contains(s, sub) == IndexOf(s, sub, 1) # 0

\* s.split(sep) for a non-empty separator.
RECURSIVE Split(_, _)
Split(s, sep) ==
    LET i == IndexOf(s, sep, 1)
    IN  IF i = 0 THEN <<s>>
        ELSE <<SubSeq(s, 1, i - 1)>> \o Split(SubSeq(s, i + Len(sep), Len(s)), sep)

Whitespace == {" ", "\t", "\n", "\r"}

IsWs(s, i) == SubSeq(s, i, i) \in Whitespace

\* s.split(): the maximal runs of non-whitespace characters.
RECURSIVE SplitWs(_)
SplitWs(s) ==
    LET starts == {i \in 1..Len(s) : ~IsWs(s, i)}
    IN  IF starts = {} THEN <<>>
        ELSE LET b    == Min(starts)
                 ends == {i \in b..Len(s) : IsWs(s, i)}
                 e    == IF ends = {} THEN Len(s) + 1 ELSE Min(ends)
             IN  <<SubSeq(s, b, e - 1)>> \o SplitWs(SubSeq(s, e, Len(s)))

\* s.strip()
RECURSIVE Strip(_)
Strip(s) ==
    IF Len(s) = 0 THEN s
    ELSE IF IsWs(s, 1) THEN Strip(SubSeq(s, 2, Len(s)))
    ELSE IF IsWs(s, Len(s)) THEN Strip(SubSeq(s, 1, Len(s) - 1))
    ELSE s

\* s.rstrip('\r')
RECURSIVE RStripCR(_)
RStripCR(s) ==
    IF Len(s) > 0 /\ SubSeq(s, Len(s), Len(s)) = "\r"
    THEN RStripCR(SubSeq(s, 1, Len(s) - 1))
    ELSE s

\* s.replace(c, '') for a one-character c.
RECURSIVE RemoveChar(_, _)
RemoveChar(s, c) ==
    IF Len(s) = 0 THEN s
    ELSE IF SubSeq(s, 1, 1) = c THEN RemoveChar(SubSeq(s, 2, Len(s)), c)
    ELSE SubSeq(s, 1, 1) \o RemoveChar(SubSeq(s, 2, Len(s)), c)

Digits == {"0", "1", "2", "3", "4", "5", "6", "7", "8", "9"}

DigitVal(c) ==
    CASE c = "0" -> 0 [] c = "1" -> 1 [] c = "2" -> 2 [] c = "3" -> 3
      [] c = "4" -> 4 [] c = "5" -> 5 [] c = "6" -> 6 [] c = "7" -> 7
      [] c = "8" -> 8 [] c = "9" -> 9

AllDigits(s) == \A i \in 1..Len(s) : SubSeq(s, i, i) \in Digits

RECURSIVE DigitsVal(_)
DigitsVal(s) ==
    IF Len(s) = 0 THEN 0
    ELSE 10 * DigitsVal(SubSeq(s, 1, Len(s) - 1)) + DigitVal(SubSeq(s, Len(s), Len(s)))

RECURSIVE Pow10(_)
Pow10(n) == IF n = 0 THEN 1 ELSE 10 * Pow10(n - 1)

HasSign(s) == Len(s) > 0 /\ SubSeq(s, 1, 1) \in {"+", "-"}

Unsigned(s) == IF HasSign(s) THEN SubSeq(s, 2, Len(s)) ELSE s

SignOf(s) == IF Len(s) > 0 /\ SubSeq(s, 1, 1) = "-" THEN -1 ELSE 1

\* int(s) on decimal text: optional surrounding whitespace, optional sign,
\* one or more digits.  ok = FALSE stands for ValueError.
ParseInt(s) ==
    LET t == Strip(s)
        u == Unsigned(t)
    IN  IF Len(u) > 0 /\ AllDigits(u)
        THEN [ok |-> TRUE, v |-> SignOf(t) * DigitsVal(u)]
        ELSE [ok |-> FALSE, v |-> 0]

\* A float is the fraction num/den with den a power of ten and no common
\* factor ten, so equal floats are equal records (1000.0 = 1000).
RECURSIVE Float(_, _)
Float(num, den) ==
    IF den > 1 /\ num % 10 = 0 THEN Float(num \div 10, den \div 10)
    ELSE [num |-> num, den |-> den]

\* float(s) on decimal text: optional surrounding whitespace, optional
\* sign, digits with at most one point and at least one digit.
ParseFloat(s) ==
    LET t  == Strip(s)
        u  == Unsigned(t)
        p  == IndexOf(u, ".", 1)
        ip == IF p = 0 THEN u ELSE SubSeq(u, 1, p - 1)
        fp == IF p = 0 THEN "" ELSE SubSeq(u, p + 1, Len(u))
    IN  IF AllDigits(ip) /\ AllDigits(fp) /\ Len(ip) + Len(fp) > 0
        THEN [ok |-> TRUE,
              v  |-> Float(SignOf(t) * (DigitsVal(ip) * Pow10(Len(fp)) + DigitsVal(fp)),
                           Pow10(Len(fp)))]
        ELSE [ok |-> FALSE, v |-> Float(0, 1)]

\* str(n) of a natural number.
RECURSIVE NatStr(_)
NatStr(n) ==
    IF n < 10 THEN SubSeq("0123456789", n + 1, n + 1)
    ELSE NatStr(n \div 10) \o SubSeq("0123456789", (n % 10) + 1, (n % 10) + 1)

\* BeautifulSoup(text).get_text(): the text outside the markup tags.
RECURSIVE SoupText(_)
SoupText(s) ==
    LET lt == IndexOf(s, "<", 1)
        gt == IF lt = 0 THEN 0 ELSE IndexOf(s, ">", lt)
    IN  IF lt = 0 \/ gt = 0 THEN s
        ELSE SubSeq(s, 1, lt - 1) \o SoupText(SubSeq(s, gt + 1, Len(s)))

(***************************************************************************)
(* The camera's replies.  A response is what requests.get returns: a       *)
(* status code and the body text.                                          *)
(***************************************************************************)
Response(status, text) == [status |-> status, text |-> text]

PtzBodies ==
    {"pan=12.5 tilt=-3.0 zoom=1000\r\n",
     "tilt=7 pan=-0.5 zoom=20\r\n",
     "pan=1.0\r\ntilt=2\r\nzoom=3\r\nautofocus=on\r\n"}

SpeedBodies == {"speed=100\r\n"}

PresetBodies ==
    {"presetposno1=Entrance\r\npresetposno5=Dock\r\n",
     "Preset Positions for camera 1\r\npresetposno1=Entrance\r\npresetposno5=Dock\r\n",
     "Preset Positions for camera 1\r\npresetposno3=Gate\r\n"}

ErrorBodies ==
    {"Error: invalid value",
     "<html><body>Error: invalid value</body></html>"}

FailureStatuses == {401, 404, 500}

\* Replies to the operations that hand the reply back unread.
Responses ==
    {Response(200, "OK\r\n"), Response(204, ""),
     Response(401, "Error: unauthorized"), Response(500, "Error: invalid value")}

\* Replies to the operations that parse the body.
QueryResponses ==
    {Response(200, b) : b \in PtzBodies \cup SpeedBodies \cup PresetBodies}
        \cup {Response(204, "")}
        \cup {Response(st, b) : st \in FailureStatuses, b \in ErrorBodies}

UserListings ==
    {Response(200, "admin=\"root\"\r\nusers=\"root,joe\"\r\n"),
     Response(200, "admin=\"ann\"\nusers=\"root\"\n"),
     Response(500, "Error: invalid value")}

ProfileListings ==
    {Response(200, "root.StreamProfile.S0.Name=HD\nroot.StreamProfile.S0.Parameters=fps=30\n"),
     Response(200, "root.StreamProfile.S0.Name=HD\r\nroot.StreamProfile.S0.Parameters=fps=30\r\n"),
     Response(200, "root.StreamProfile.MaxGroups=26\n"),
     Response(500, "Error: invalid value")}

\* Replies to the configuration requests that change or read settings.
CfgResponses ==
    {Response(200, "<html><body>OK</body></html>"),
     Response(200, ""),
     Response(401, "<html><body>Error: unauthorized</body></html>"),
     Response(500, "Error: invalid value")}

\* Replies to the request that follows an existence check.
ActResponses ==
    {Response(200, "<html><body>OK</body></html>"),
     Response(200, ""),
     Response(500, "Error: invalid value")}

\* No reply: the request it would answer was not sent.
NoResponse == Response(0, "")

\* The replies to draw for the request after the check: c is the call
\* computed without a reply, which shows whether that request is sent.
RepliesTo(c) == IF Len(c.requests) = 2 THEN ActResponses ELSE {NoResponse}

(***************************************************************************)
(* The presets the camera stores, and how it lists them.                   *)
(***************************************************************************)
\* A stored preset as the device lists it: its token and its name.
Preset(token, name) == [token |-> token, Name |-> name]

PresetNames == {"Entrance", "Dock"}

PresetTokens == {NatStr(k) : k \in 1..MaxPresets}

\* Every list of presets the camera can hold: tokens are not repeated,
\* names may be.
PresetLists ==
    {p \in UNION {[1..n -> {Preset(t, nm) : t \in PresetTokens, nm \in PresetNames}] :
                      n \in 0..MaxPresets} :
        \A i, j \in 1..Len(p) : i # j => p[i].token # p[j].token}

RECURSIVE PresetLines(_)
PresetLines(presets) ==
    IF presets = <<>> THEN ""
    ELSE "presetposno" \o Head(presets).token \o "=" \o Head(presets).Name \o "\r\n"
             \o PresetLines(Tail(presets))

\* The body the camera sends for query=presetposall.
PresetListing(presets) == "Preset Positions for camera 1\r\n" \o PresetLines(presets)

\* The token the camera gives a new preset: the lowest number not in use.
FreeToken(presets) ==
    NatStr(Min({k \in 1..(Len(presets) + 1) :
                    \A i \in 1..Len(presets) : presets[i].token # NatStr(k)}))

AddPreset(presets, name) == Append(presets, Preset(FreeToken(presets), name))

DropPreset(presets, token) == SelectSeq(presets, LAMBDA q : q.token # token)

UserNames == {"joe", "jo", "ann"}

ProfileNames == {"HD", "H", "Low"}

(***************************************************************************)
(* The accounts and stream profiles the camera stores, and how it lists    *)
(* them.                                                                   *)
(***************************************************************************)
\* sep.join(items)
RECURSIVE Join(_, _)
Join(items, sep) ==
    IF items = <<>> THEN ""
    ELSE IF Len(items) = 1 THEN items[1]
    ELSE items[1] \o sep \o Join(Tail(items), sep)

\* Every arrangement of distinct members of S.
Arrangements(S) ==
    {p \in UNION {[1..n -> S] : n \in 0..Cardinality(S)} :
        \A i, j \in 1..Len(p) : i # j => p[i] # p[j]}

\* The names callers try to create.
NewUsers == {"joe", "ann"}

NewProfiles == {"Low"}

\* The account lists and profile lists the camera can come to hold.
UserLists == {<<"root">> \o p : p \in Arrangements(NewUsers)}

ProfileLists == {<<"HD">> \o p : p \in Arrangements(NewProfiles)}

\* The body the camera sends for pwdgrp.cgi?action=get.
UserListing(users) == "admin=\"root\"\r\nusers=\"" \o Join(users, ",") \o "\"\r\n"

RECURSIVE ProfileLines(_, _)
ProfileLines(profiles, i) ==
    IF profiles = <<>> THEN ""
    ELSE "root.StreamProfile.S" \o NatStr(i) \o ".Name=" \o Head(profiles) \o "\n"
             \o "root.StreamProfile.S" \o NatStr(i) \o ".Parameters=fps=30\n"
             \o ProfileLines(Tail(profiles), i + 1)

\* The body the camera sends for param.cgi?action=list&group=root.StreamProfile.
ProfileListing(profiles) == ProfileLines(profiles, 0)

SGroups == {"admin", "operator", "ptz", "viewer"}

Texts == {None, Some("cam1")}

\* Every body text of the replies above.
Bodies ==
    {r.text : r \in Responses \cup QueryResponses \cup UserListings
                      \cup ProfileListings \cup CfgResponses \cup ActResponses
                      \cup {NoResponse}}
        \cup {PresetListing(p) : p \in PresetLists}

\* get_text() of every modelled body, computed once.
get_text == [t \in Bodies |-> SoupText(t)]

(***************************************************************************)
(* Outcomes of a call, as its caller sees them.                            *)
(***************************************************************************)
Return(v) == [kind |-> "return", exc |-> "", val |-> v]

Raise(e) == [kind |-> "raise", exc |-> e, val |-> None]

\* sys.exit(code) raises SystemExit: the calling process (or thread) ends.
SysExit(code) == [kind |-> "exit", exc |-> "SystemExit", val |-> Some(code)]

(***************************************************************************)
(* CameraControl                                                           *)
(***************************************************************************)
\* Variant: earlier dictionaries take precedence.
merge_dictsFirstWins(a, b) ==
    [k \in DOMAIN a \cup DOMAIN b |-> IF k \in DOMAIN a THEN a[k] ELSE b[k]]

\* CameraControl.__merge_dicts: later dictionaries take precedence.
merge_dicts(a, b) ==
    [k \in DOMAIN a \cup DOMAIN b |-> IF k \in DOMAIN b THEN b[k] ELSE a[k]]

\* Variant: the encoding leaves out every falsy value (None, 0, ''), not
\* only None.  The timestamp is a positive number and is kept.
EncodeParamsDropFalsy(payload) ==
    [k \in {key \in DOMAIN payload :
                \/ key = "timestamp"
                \/ payload[key] \notin {None, Some("0"), Some("")}} |->
        payload[k][1]]

\* Variant: the encoding keeps every key and sends str(None) for None.
EncodeParamsKeepNone(payload) == [k \in DOMAIN payload |-> Str(payload[k])]

\* requests encodes params into the query string and leaves out every key
\* whose value is None.
EncodeParams(payload) ==
    [k \in {key \in DOMAIN payload : payload[key] # None} |-> payload[k][1]]

\* Variant: no credentials are attached; the request relies on what an
\* earlier exchange left behind.
HTTPDigestAuthFromSession(user, password) == [user |-> "", password |-> ""]

HTTPDigestAuth(user, password) == [user |-> user, password |-> password]

Get(url, auth, payload) ==
    [url |-> url, auth |-> auth, params |-> EncodeParams(payload)]

base_q_args == [camera |-> Some("1"), html |-> Some("no"), timestamp |-> Some(clock)]

\* The message logging.error writes for a status other than 200 and 204;
\* None when nothing is logged.
error_log(resp) ==
    IF resp.status # 200 /\ resp.status # 204 THEN Some(get_text[resp.text]) ELSE None

\* Variant: sys.exit(1) is called on every status other than 200 and 204.
_camera_commandExitOnFailure(payload, resp) ==
    LET payload2 == merge_dicts(payload, base_q_args)
        url      == "http://" \o cam.ip \o "/axis-cgi/com/ptz.cgi"
    IN  [request |-> Get(url, HTTPDigestAuth(cam.user, cam.password), payload2),
         outcome |-> IF resp.status # 200 /\ resp.status # 204
                     THEN SysExit("1")
                     ELSE Return(resp)]

_camera_command(payload, resp) ==
    LET payload2 == merge_dicts(payload, base_q_args)
        url      == "http://" \o cam.ip \o "/axis-cgi/com/ptz.cgi"
    IN  [request |-> Get(url, HTTPDigestAuth(cam.user, cam.password), payload2),
         outcome |-> IF resp.status # 200 /\ resp.status # 204 /\ resp.status = 401
                     THEN SysExit("1")
                     ELSE Return(resp)]

absolute_move(pan, tilt, zoom, speed, resp) ==
    _camera_command([pan |-> pan, tilt |-> tilt, zoom |-> zoom, speed |-> speed], resp)

continuous_move(pan, tilt, zoom, resp) ==
    LET pan_tilt == Str(pan) \o "," \o Str(tilt)
    IN  _camera_command([continuouspantiltmove |-> Some(pan_tilt),
                        continuouszoommove |-> zoom], resp)

relative_move(pan, tilt, zoom, speed, resp) ==
    _camera_command([rpan |-> pan, rtilt |-> tilt, rzoom |-> zoom, speed |-> speed], resp)

stop_move(resp) ==
    _camera_command([continuouspantiltmove |-> Some("0,0"),
                    continuouszoommove |-> Some("0")], resp)

center_move(pos_x, pos_y, speed, resp) ==
    LET pan_tilt == Str(pos_x) \o "," \o Str(pos_y)
    IN  _camera_command([center |-> Some(pan_tilt), speed |-> speed], resp)

area_zoom(pos_x, pos_y, zoom, speed, resp) ==
    LET xyzoom == Str(pos_x) \o "," \o Str(pos_y) \o "," \o Str(zoom)
    IN  _camera_command([areazoom |-> Some(xyzoom), speed |-> speed], resp)

move(position, speed, resp) ==
    _camera_command([move |-> Some(Str(position)), speed |-> speed], resp)

go_home_position(speed, resp) ==
    _camera_command([move |-> Some("home"), speed |-> speed], resp)

go_to_server_preset_name(name, speed, resp) ==
    _camera_command([gotoserverpresetname |-> name, speed |-> speed], resp)

go_to_server_preset_no(number, speed, resp) ==
    _camera_command([gotoserverpresetno |-> number, speed |-> speed], resp)

go_to_device_preset(preset_pos, speed, resp) ==
    _camera_command([gotodevicepreset |-> preset_pos, speed |-> speed], resp)

list_preset_device(resp) == _camera_command([query |-> Some("presetposcam")], resp)

set_speed(speed, resp) == _camera_command([speed |-> speed], resp)

\* The rest of a call after _camera_command: parsed is what the operation
\* makes of the response, when the primitive returned one.
Then(c, parsed) ==
    [request |-> c.request,
     outcome |-> IF c.outcome.kind = "return" THEN parsed ELSE c.outcome]

\* Variant: the field is looked up by its key name (pan, tilt, zoom) and
\* not by its position.
PtzFieldByKey(text, i) ==
    LET toks == SplitWs(text)
        key  == <<"pan", "tilt", "zoom">>[i]
        hits == {j \in 1..Len(toks) : Split(toks[j], "=")[1] = key}
    IN  IF hits = {} THEN Raise("IndexError")
        ELSE LET parts == Split(toks[Min(hits)], "=")
             IN  IF Len(parts) < 2 THEN Raise("IndexError")
                 ELSE LET f == ParseFloat(parts[2])
                      IN  IF f.ok THEN Return(f.v) ELSE Raise("ValueError")

\* float(text.split()[i].split('=')[1]) with i counted from 1.
PtzField(text, i) ==
    LET toks == SplitWs(text)
    IN  IF Len(toks) < i THEN Raise("IndexError")
        ELSE LET parts == Split(toks[i], "=")
             IN  IF Len(parts) < 2 THEN Raise("IndexError")
                 ELSE LET f == ParseFloat(parts[2])
                      IN  IF f.ok THEN Return(f.v) ELSE Raise("ValueError")

ParsePtz(resp) ==
    LET pan  == PtzField(resp.text, 1)
        tilt == PtzField(resp.text, 2)
        zoom == PtzField(resp.text, 3)
    IN  IF pan.kind # "return" THEN pan
        ELSE IF tilt.kind # "return" THEN tilt
        ELSE IF zoom.kind # "return" THEN zoom
        ELSE Return(<<pan.val, tilt.val, zoom.val>>)

get_ptz(resp) == Then(_camera_command([query |-> Some("position")], resp), ParsePtz(resp))

\* (int(preset[0].split('presetposno')[1]), preset[1].rstrip('\r'))
PresetEntry(line) ==
    LET preset == Split(line, "=")
        key    == Split(preset[1], "presetposno")
    IN  IF Len(key) < 2 THEN Raise("IndexError")
        ELSE LET n == ParseInt(key[2])
             IN  IF ~n.ok THEN Raise("ValueError")
                 ELSE IF Len(preset) < 2 THEN Raise("IndexError")
                 ELSE Return(<<n.v, RStripCR(preset[2])>>)

\* The loop over range(1, len(resp_presets) - 1), lines counted from 1 here.
RECURSIVE PresetLoop(_, _, _)
PresetLoop(resp_presets, i, presets) ==
    IF i > Len(resp_presets) - 1 THEN Return(presets)
    ELSE LET e == PresetEntry(resp_presets[i])
         IN  IF e.kind # "return" THEN e
             ELSE PresetLoop(resp_presets, i + 1, Append(presets, e.val))

\* Variant: the loop starts at the first line, range(0, ...).
ParsePresetsFromFirstLine(resp) ==
    PresetLoop(Split(get_text[resp.text], "\n"), 1, <<>>)

ParsePresets(resp) == PresetLoop(Split(get_text[resp.text], "\n"), 2, <<>>)

list_all_preset(resp) ==
    Then(_camera_command([query |-> Some("presetposall")], resp), ParsePresets(resp))

ParseSpeed(resp) ==
    LET toks == SplitWs(resp.text)
    IN  IF Len(toks) < 1 THEN Raise("IndexError")
        ELSE LET parts == Split(toks[1], "=")
             IN  IF Len(parts) < 2 THEN Raise("IndexError")
                 ELSE LET n == ParseInt(parts[2])
                      IN  IF n.ok THEN Return(n.v) ELSE Raise("ValueError")

get_speed(resp) == Then(_camera_command([query |-> Some("speed")], resp), ParseSpeed(resp))

ResponseText(resp) == Return(resp.text)

info_ptz_comands(resp) == Then(_camera_command([info |-> Some("1")], resp), ResponseText(resp))

(***************************************************************************)
(* State machine of the control client.                                    *)
(*   cam     the endpoint target given to the constructor                  *)
(*   clock   time.time() in whole seconds                                  *)
(*   alive   FALSE once the calling process has been terminated            *)
(*   call    the most recent call: operation name and arguments            *)
(*   sent    the requests that call issued, in order                       *)
(*   result  what that call gave its caller                                *)
(*   moving  the camera is carrying out a continuous move                  *)
(*   device  what the camera stores: presets, user accounts, profiles      *)
(*   onvif   the attributes of the ONVIF client                            *)
(*   tasks   the calls in progress when several callers share the camera   *)
(*   worker  the capture thread of src/example.py and its exit_program flag *)
(***************************************************************************)
Cams == {[ip |-> "10.0.0.7", user |-> "root", password |-> "pass"]}

Nums == {None, Some("10")}

Speeds == {None, Some("0"), Some("50")}

Names == {None, Some("Dock")}

Positions == {None, Some("up")}

NoArgs == <<>>

\* The camera as the client finds it: one preset, one account, one profile.
Device0 ==
    [presets  |-> <<Preset("1", "Entrance")>>,
     users    |-> <<"root">>,
     profiles |-> <<"HD">>,
     media_profiles |-> <<"profile_1_h264">>]

\* The ONVIF client after __init__: camera_start has set no attribute yet.
NotStarted == [camera_ptz |-> None, camera_media_profile |-> None]

Threads == {1, 2}

\* The capture thread before it opened the stream; exit_program = 0.
NotStartedWorker == [pc |-> "open", exit_program |-> 0, ret |-> FALSE, k |-> 255]

\* A caller that is in no call.
Idle == [pc |-> "idle"]

NoTasks == [t \in Threads |-> Idle]

\* Variant: the constructor probes the camera with a request.
InitWithProbe ==
    /\ cam \in Cams
    /\ clock = 0
    /\ alive = TRUE
    /\ call = [op |-> "__init__", args |-> NoArgs, replies |-> <<>>]
    /\ sent = <<Get("http://" \o cam.ip \o "/", HTTPDigestAuth(cam.user, cam.password), <<>>)>>
    /\ result = Return(None)
    /\ moving = FALSE
    /\ device = Device0
    /\ onvif = NotStarted
    /\ tasks = NoTasks
    /\ worker = NotStartedWorker

Init ==
    /\ cam \in Cams
    /\ clock = 0
    /\ alive = TRUE
    /\ call = [op |-> "__init__", args |-> NoArgs, replies |-> <<>>]
    /\ sent = <<>>
    /\ result = Return(None)
    /\ moving = FALSE
    /\ device = Device0
    /\ onvif = NotStarted
    /\ tasks = NoTasks
    /\ worker = NotStartedWorker

\* The camera's motion after it answered a request: a continuous move it
\* accepted goes on until a continuous move of zero velocity is accepted.
Motion(request, resp) ==
    LET p == request.params
    IN  IF resp.status \notin {200, 204} THEN moving
        ELSE IF "continuouspantiltmove" \in DOMAIN p
        THEN ~(/\ p["continuouspantiltmove"] = "0,0"
               /\ "continuouszoommove" \in DOMAIN p
               /\ p["continuouszoommove"] = "0")
        ELSE moving

\* Variant: the request is sent a second time when the reply is a failure.
DoWithRetry(op, args, resp, c) ==
    /\ alive
    /\ call' = [op |-> op, args |-> args, replies |-> <<resp>>]
    /\ sent' = IF resp.status \in {200, 204} THEN <<c.request>>
               ELSE <<c.request, c.request>>
    /\ result' = c.outcome
    /\ alive' = (c.outcome.kind # "exit")
    /\ moving' = Motion(c.request, resp)
    /\ UNCHANGED <<cam, clock, device, onvif, tasks, worker>>

\* One call of a control operation by whoever makes it: c is what the
\* operation computed.
Called(op, args, resp, c) ==
    /\ alive
    /\ call' = [op |-> op, args |-> args, replies |-> <<resp>>]
    /\ sent' = <<c.request>>
    /\ result' = c.outcome
    /\ alive' = (c.outcome.kind # "exit")
    /\ moving' = Motion(c.request, resp)
    /\ UNCHANGED <<cam, clock, device, onvif, tasks>>

\* One call of a control operation from outside the capture thread.
Do(op, args, resp, c) == Called(op, args, resp, c) /\ UNCHANGED worker

Tick ==
    /\ alive
    /\ clock < MaxClock
    /\ clock' = clock + 1
    /\ UNCHANGED <<cam, alive, call, sent, result, moving, device, onvif, tasks, worker>>

AbsoluteMove ==
    \E pan \in Nums, tilt \in Nums, zoom \in Nums, speed \in Nums, resp \in Responses :
        Do("absolute_move", [pan |-> pan, tilt |-> tilt, zoom |-> zoom, speed |-> speed], resp,
           absolute_move(pan, tilt, zoom, speed, resp))

ContinuousMove ==
    \E pan \in Speeds, tilt \in Nums, zoom \in Nums, resp \in Responses :
        Do("continuous_move", [pan |-> pan, tilt |-> tilt, zoom |-> zoom], resp,
           continuous_move(pan, tilt, zoom, resp))

RelativeMove ==
    \E pan \in Nums, tilt \in Nums, zoom \in Nums, speed \in Nums, resp \in Responses :
        Do("relative_move", [pan |-> pan, tilt |-> tilt, zoom |-> zoom, speed |-> speed], resp,
           relative_move(pan, tilt, zoom, speed, resp))

StopMove ==
    \E resp \in Responses : Do("stop_move", NoArgs, resp, stop_move(resp))

CenterMove ==
    \E pos_x \in Nums, pos_y \in Nums, speed \in Nums, resp \in Responses :
        Do("center_move", [pos_x |-> pos_x, pos_y |-> pos_y, speed |-> speed], resp,
           center_move(pos_x, pos_y, speed, resp))

AreaZoom ==
    \E pos_x \in Nums, pos_y \in Nums, zoom \in Nums, speed \in Nums, resp \in Responses :
        Do("area_zoom", [pos_x |-> pos_x, pos_y |-> pos_y, zoom |-> zoom, speed |-> speed], resp,
           area_zoom(pos_x, pos_y, zoom, speed, resp))

Move ==
    \E position \in Positions, speed \in Nums, resp \in Responses :
        Do("move", [position |-> position, speed |-> speed], resp, move(position, speed, resp))

GoHomePosition ==
    \E speed \in Nums, resp \in Responses :
        Do("go_home_position", [speed |-> speed], resp, go_home_position(speed, resp))

GetPtz ==
    \E resp \in QueryResponses : Do("get_ptz", NoArgs, resp, get_ptz(resp))

GoToServerPresetName ==
    \E name \in Names, speed \in Nums, resp \in Responses :
        Do("go_to_server_preset_name", [name |-> name, speed |-> speed], resp,
           go_to_server_preset_name(name, speed, resp))

GoToServerPresetNo ==
    \E number \in Nums, speed \in Nums, resp \in Responses :
        Do("go_to_server_preset_no", [number |-> number, speed |-> speed], resp,
           go_to_server_preset_no(number, speed, resp))

GoToDevicePreset ==
    \E preset_pos \in Nums, speed \in Nums, resp \in Responses :
        Do("go_to_device_preset", [preset_pos |-> preset_pos, speed |-> speed], resp,
           go_to_device_preset(preset_pos, speed, resp))

ListPresetDevice ==
    \E resp \in QueryResponses : Do("list_preset_device", NoArgs, resp, list_preset_device(resp))

ListAllPreset ==
    \E resp \in QueryResponses : Do("list_all_preset", NoArgs, resp, list_all_preset(resp))

SetSpeed ==
    \E speed \in Nums, resp \in Responses :
        Do("set_speed", [speed |-> speed], resp, set_speed(speed, resp))

GetSpeed ==
    \E resp \in QueryResponses : Do("get_speed", NoArgs, resp, get_speed(resp))

InfoPtzComands ==
    \E resp \in QueryResponses : Do("info_ptz_comands", NoArgs, resp, info_ptz_comands(resp))

NextControl ==
    \/ AbsoluteMove \/ ContinuousMove \/ RelativeMove \/ StopMove
    \/ CenterMove \/ AreaZoom \/ Move \/ GoHomePosition \/ GetPtz
    \/ GoToServerPresetName \/ GoToServerPresetNo \/ GoToDevicePreset
    \/ ListPresetDevice \/ ListAllPreset \/ SetSpeed \/ GetSpeed
    \/ InfoPtzComands

Next == Tick \/ NextControl

Spec == Init /\ [][Next]_vars

(***************************************************************************)
(* The primitive called directly, with payloads that hold keys of the base *)
(* parameters as well.                                                     *)
(***************************************************************************)
\* The values a payload gives its keys; a payload holds any of the keys.
PayloadValues ==
    {[camera |-> c, html |-> Some("yes"), timestamp |-> Some(99), speed |-> Some("50")] :
        c \in {None, Some("2")}}

Payloads ==
    {[k \in keys |-> full[k]] :
        keys \in SUBSET {"camera", "html", "timestamp", "speed"}, full \in PayloadValues}

CameraCommand ==
    \E payload \in Payloads, resp \in Responses :
        Do("_camera_command", payload, resp, _camera_command(payload, resp))

NextPrimitive == Tick \/ CameraCommand

SpecPrimitive == Init /\ [][NextPrimitive]_vars

(***************************************************************************)
(* CameraConfiguration                                                     *)
(***************************************************************************)
\* Python integers and strings share the return values of check_user and
\* check_profile; a tag keeps them apart.
PyInt(i) == [t |-> "int", i |-> i, s |-> ""]

PyStr(s) == [t |-> "str", i |-> 0, s |-> s]

\* The truth value Python's if gives a value.
Truthy(v) == IF v.t = "int" THEN v.i # 0 ELSE v.s # ""

\* str(resp) of a requests response.
StrResp(resp) == "<Response [" \o NatStr(resp.status) \o "]>"

\* Variant: the address is the factory default of the camera, not the
\* one the constructor stored.
CfgUrlDefaultHost(path) == "http://" \o "192.168.0.90" \o path

CfgUrl(path) == "http://" \o cam.ip \o path

CfgGet(path, payload) ==
    Get(CfgUrl(path), HTTPDigestAuth(cam.user, cam.password), payload)

\* The ending shared by most operations: the text on 200, otherwise
\* str(resp) followed by the text.
TextOrError(resp) ==
    IF resp.status = 200 THEN Return(PyStr(resp.text))
    ELSE Return(PyStr(StrResp(resp) \o resp.text))

\* The same ending with the error text taken through BeautifulSoup.
TextOrSoupError(resp) ==
    IF resp.status = 200 THEN Return(PyStr(resp.text))
    ELSE Return(PyStr(StrResp(resp) \o get_text[resp.text]))

\* soup.body.get_text() on 200: a document without text has no body, and
\* the attribute access on None raises.
BodyTextOrSoupError(resp) ==
    IF resp.status = 200
    THEN IF get_text[resp.text] = "" THEN Raise("AttributeError")
         ELSE Return(PyStr(get_text[resp.text]))
    ELSE Return(PyStr(StrResp(resp) \o get_text[resp.text]))

One(request, outcome) == [requests |-> <<request>>, outcome |-> outcome]

NoParams == <<>>

get_date_and_time(resp) ==
    One(CfgGet("/axis-cgi/date.cgi?action=get", NoParams), TextOrError(resp))

set_date(year_date, month_date, day_date, resp) ==
    LET payload == [action |-> Some("set"), year |-> year_date,
                    month |-> month_date, day |-> day_date]
    IN  One(CfgGet("/axis-cgi/date.cgi", payload), TextOrError(resp))

set_time(hour, minute, second, timezone, resp) ==
    LET payload == [action |-> Some("set"), hour |-> hour, minute |-> minute,
                    second |-> second, timezone |-> timezone]
    IN  One(CfgGet("/axis-cgi/date.cgi", payload), TextOrError(resp))

set_dynamic_text_overlay(text, camera, resp) ==
    LET payload == [action |-> Some("settext"), text |-> text, camera |-> camera]
    IN  One(CfgGet("/axis-cgi/dynamicoverlay.cgi", payload), TextOrSoupError(resp))

set_hostname(hostname, set_dhcp, resp) ==
    LET payload == ("action" :> Some("update"))
                   @@ ("Network.HostName" :> hostname)
                   @@ ("Network.VolatileHostName.ObtainFromDHCP" :> set_dhcp)
    IN  One(CfgGet("/axis-cgi/param.cgi", payload), TextOrSoupError(resp))

auto_focus(focus, resp) ==
    One(CfgGet("/axis-cgi/com/ptz.cgi", [autofocus |-> focus]), TextOrError(resp))

\* The scan of check_profile over the lines of the listing.
ProfileListed(text, name) ==
    LET text2 == Split(text, "\n")
    IN  \E i \in 1..Len(text2) :
            LET text3 == Split(text2[i], "Name=")
            IN  Len(text3) > 1 /\ text3[2] = name

\* The scan's verdict on every modelled listing and name, computed once.
ProfileVerdicts ==
    [text \in {r.text : r \in ProfileListings} \cup {ProfileListing(l) : l \in ProfileLists},
     name \in ProfileNames |->
        ProfileListed(text, name)]

check_profile(name, resp) ==
    LET payload == [action |-> Some("list"), group |-> Some("root.StreamProfile")]
    IN  One(CfgGet("/axis-cgi/param.cgi", payload),
            IF resp.status = 200
            THEN Return(PyInt(IF ProfileVerdicts[resp.text, name] THEN 1 ELSE 0))
            ELSE Return(PyStr(StrResp(resp) \o get_text[resp.text])))

\* Variant: the quotes around the list of names are not removed.
UserListedKeepQuotes(text, name) ==
    LET text2 == Split(text, "\n")
    IN  \E i \in 1..Len(text2) :
            LET text3 == Split(text2[i], "users=")
            IN  /\ Len(text3) > 1
                /\ LET text4 == Split(RemoveChar(text3[2], "\r"), ",")
                   IN  \E j \in 1..Len(text4) : text4[j] = name

\* Variant: a name counts as listed when the users line holds it anywhere.
UserListedBySubstring(text, name) ==
    LET text2 == Split(text, "\n")
    IN  \E i \in 1..Len(text2) :
            LET text3 == Split(text2[i], "users=")
            IN  Len(text3) > 1 /\ Contains(text3[2], name)

\* The scan of check_user over the lines of the listing.
UserListed(text, name) ==
    LET text2 == Split(text, "\n")
    IN  \E i \in 1..Len(text2) :
            LET text3 == Split(text2[i], "users=")
            IN  /\ Len(text3) > 1
                /\ LET text4 == Split(RemoveChar(RemoveChar(text3[2], "\""), "\r"), ",")
                   IN  \E j \in 1..Len(text4) : text4[j] = name

\* The scan's verdict on every modelled listing and name, computed once.
UserVerdicts ==
    [text \in {r.text : r \in UserListings} \cup {UserListing(l) : l \in UserLists},
     name \in UserNames |->
        UserListed(text, name)]

\* Variant: the listing is requested but every name is taken as present.
check_userAssumePresent(name, resp) ==
    One(CfgGet("/axis-cgi/pwdgrp.cgi", [action |-> Some("get")]),
        IF resp.status = 200 THEN Return(PyInt(1)) ELSE Raise("TypeError"))

\* On a status other than 200 the code calls soup.resp_text(): the soup has
\* no such tag, the attribute is None, and calling None raises TypeError.
check_user(name, resp) ==
    One(CfgGet("/axis-cgi/pwdgrp.cgi", [action |-> Some("get")]),
        IF resp.status = 200
        THEN Return(PyInt(IF UserVerdicts[resp.text, name] THEN 1 ELSE 0))
        ELSE Raise("TypeError"))

\* The keys of create_profile's params dictionary, in insertion order.
ProfileKeys ==
    <<"resolution", "videocodec", "fps", "compression", "h264profile",
      "videokeyframeinterval", "videobitrate", "videobitratepriority">>

\* {key: value for (key, value) in params.items() if value is not None}
params_filtred(params) ==
    [k \in {key \in DOMAIN params : params[key] # None} |-> params[k]]

\* urllib.parse.urlencode over the dictionary's keys in insertion order.
RECURSIVE urlencode(_, _)
urlencode(params, keys) ==
    IF keys = <<>> THEN ""
    ELSE LET k    == Head(keys)
             rest == urlencode(params, Tail(keys))
         IN  IF k \notin DOMAIN params THEN rest
             ELSE k \o "=" \o Str(params[k]) \o (IF rest = "" THEN "" ELSE "&" \o rest)

\* A check followed by the guarded request: refuse holds the check's
\* verdict, and the second request is sent only when it is FALSE.
CheckThenAct(chk, refuse, message, request, ending) ==
    IF chk.outcome.kind # "return" THEN chk
    ELSE IF refuse THEN [requests |-> chk.requests, outcome |-> Return(PyStr(message))]
    ELSE [requests |-> Append(chk.requests, request), outcome |-> ending]

create_profile(name, resolution, video_codec, fps, compression, h264_profile, gop, bitrate, bitrate_priority, listResp, addResp) ==
    LET chk     == check_profile(name, listResp)
        params  == [resolution |-> resolution, videocodec |-> video_codec, fps |-> fps,
                    compression |-> compression, h264profile |-> h264_profile,
                    videokeyframeinterval |-> gop, videobitrate |-> bitrate,
                    videobitratepriority |-> bitrate_priority]
        text_params == urlencode(params_filtred(params), ProfileKeys)
        payload == ("action" :> Some("add"))
                   @@ ("template" :> Some("streamprofile"))
                   @@ ("group" :> Some("StreamProfile"))
                   @@ ("StreamProfile.S.Name" :> Some(name))
                   @@ ("StreamProfile.S.Parameters" :> Some(text_params))
    IN  CheckThenAct(chk, Truthy(chk.outcome.val),
                     name \o " already exists. Remove the previous profile or change the name of the profile to be created.",
                     CfgGet("/axis-cgi/param.cgi", payload),
                     BodyTextOrSoupError(addResp))

\* Variant: ptz is sent as given.
ExpandSgroupKeepPtz(sgroup) ==
    IF sgroup = Some("admin") THEN Some("admin:operator:viewer:ptz")
    ELSE IF sgroup = Some("operator") THEN Some("operator:viewer:ptz")
    ELSE sgroup

\* The security group sent as sgrp by create_user and update_user.
ExpandSgroup(sgroup) ==
    IF sgroup = Some("admin") THEN Some("admin:operator:viewer:ptz")
    ELSE IF sgroup = Some("operator") THEN Some("operator:viewer:ptz")
    ELSE IF sgroup = Some("ptz") THEN Some("viewer:ptz")
    ELSE sgroup

\* group: str = 'users' in the signatures; None stands for an argument the
\* caller left out.
DefaultGroup(group) == IF group = None THEN Some("users") ELSE group

create_user(user, password, sgroup, group, comment, listResp, addResp) ==
    LET chk     == check_user(user, listResp)
        payload == [action |-> Some("add"), user |-> Some(user), pwd |-> Some(password),
                    grp |-> DefaultGroup(group), sgrp |-> ExpandSgroup(Some(sgroup)),
                    comment |-> comment]
    IN  CheckThenAct(chk, Truthy(chk.outcome.val), user \o " already exists.",
                     CfgGet("/axis-cgi/pwdgrp.cgi", payload),
                     BodyTextOrSoupError(addResp))

update_user(user, password, group, sgroup, comment, listResp, updResp) ==
    LET chk     == check_user(user, listResp)
        payload == [action |-> Some("update"), user |-> Some(user), pwd |-> password,
                    grp |-> DefaultGroup(group), sgrp |-> ExpandSgroup(sgroup),
                    comment |-> comment]
    IN  CheckThenAct(chk, ~Truthy(chk.outcome.val), user \o " does not exists.",
                     CfgGet("/axis-cgi/pwdgrp.cgi", payload),
                     BodyTextOrSoupError(updResp))

remove_user(user, listResp, remResp) ==
    LET chk     == check_user(user, listResp)
        payload == [action |-> Some("remove"), user |-> Some(user)]
    IN  CheckThenAct(chk, ~Truthy(chk.outcome.val), user \o "does not exists.",
                     CfgGet("/axis-cgi/pwdgrp.cgi", payload),
                     BodyTextOrSoupError(remResp))

(***************************************************************************)
(* State machine of the configuration client.                              *)
(***************************************************************************)
DoConfig(op, args, resps, c) ==
    /\ alive
    /\ call' = [op |-> op, args |-> args, replies |-> SubSeq(resps, 1, Len(c.requests))]
    /\ sent' = c.requests
    /\ result' = c.outcome
    /\ alive' = (c.outcome.kind # "exit")
    /\ UNCHANGED <<cam, clock, moving, device, onvif, tasks, worker>>

GetDateAndTime ==
    \E resp \in CfgResponses : DoConfig("get_date_and_time", NoArgs, <<resp>>, get_date_and_time(resp))

SetDate ==
    \E year_date \in Nums, month_date \in Nums, day_date \in Nums, resp \in CfgResponses :
        DoConfig("set_date", [year_date |-> year_date, month_date |-> month_date,
                              day_date |-> day_date], <<resp>>,
                 set_date(year_date, month_date, day_date, resp))

SetTime ==
    \E hour \in Nums, minute \in Nums, timezone \in Texts, resp \in CfgResponses :
        DoConfig("set_time", [hour |-> hour, minute |-> minute, second |-> None,
                              timezone |-> timezone], <<resp>>,
                 set_time(hour, minute, None, timezone, resp))

SetDynamicTextOverlay ==
    \E text \in Texts, camera \in Nums, resp \in CfgResponses :
        DoConfig("set_dynamic_text_overlay", [text |-> text, camera |-> camera], <<resp>>,
                 set_dynamic_text_overlay(text, camera, resp))

SetHostname ==
    \E hostname \in Texts, set_dhcp \in {None, Some("yes")}, resp \in CfgResponses :
        DoConfig("set_hostname", [hostname |-> hostname, set_dhcp |-> set_dhcp], <<resp>>,
                 set_hostname(hostname, set_dhcp, resp))

AutoFocus ==
    \E focus \in {None, Some("on")}, resp \in CfgResponses :
        DoConfig("auto_focus", [focus |-> focus], <<resp>>, auto_focus(focus, resp))

CheckProfile ==
    \E name \in ProfileNames, resp \in ProfileListings :
        DoConfig("check_profile", [name |-> Some(name)], <<resp>>, check_profile(name, resp))

CheckUser ==
    \E name \in UserNames, resp \in UserListings :
        DoConfig("check_user", [name |-> Some(name)], <<resp>>, check_user(name, resp))

CreateProfile ==
    \E name \in ProfileNames, resolution \in {None, Some("1920x1080")},
       fps \in {None, Some("30")}, listResp \in ProfileListings :
        \E addResp \in RepliesTo(create_profile(name, resolution, None, fps, None, None,
                                                None, None, None, listResp, NoResponse)) :
            DoConfig("create_profile",
                     [name |-> Some(name), resolution |-> resolution,
                      video_codec |-> None, fps |-> fps, compression |-> None,
                      h264_profile |-> None, gop |-> None, bitrate |-> None,
                      bitrate_priority |-> None], <<listResp, addResp>>,
                     create_profile(name, resolution, None, fps, None, None, None,
                                    None, None, listResp, addResp))

CreateUser ==
    \E user \in UserNames, sgroup \in SGroups, group \in {None, Some("staff")},
       comment \in Texts, listResp \in UserListings :
        \E addResp \in RepliesTo(create_user(user, "pw", sgroup, group, comment,
                                              listResp, NoResponse)) :
            DoConfig("create_user",
                     [user |-> Some(user), password |-> Some("pw"), sgroup |-> Some(sgroup),
                      group |-> group, comment |-> comment], <<listResp, addResp>>,
                     create_user(user, "pw", sgroup, group, comment, listResp, addResp))

UpdateUser ==
    \E user \in UserNames, sgroup \in {None} \cup {Some(g) : g \in SGroups},
       group \in {None, Some("staff")}, listResp \in UserListings :
        \E updResp \in RepliesTo(update_user(user, Some("pw"), group, sgroup, None,
                                              listResp, NoResponse)) :
            DoConfig("update_user",
                     [user |-> Some(user), password |-> Some("pw"), sgroup |-> sgroup,
                      group |-> group, comment |-> None], <<listResp, updResp>>,
                     update_user(user, Some("pw"), group, sgroup, None, listResp, updResp))

RemoveUser ==
    \E user \in UserNames, listResp \in UserListings :
        \E remResp \in RepliesTo(remove_user(user, listResp, NoResponse)) :
            DoConfig("remove_user", [user |-> Some(user)], <<listResp, remResp>>,
                     remove_user(user, listResp, remResp))

NextConfig ==
    \/ GetDateAndTime \/ SetDate \/ SetTime \/ SetDynamicTextOverlay
    \/ SetHostname \/ AutoFocus \/ CheckProfile \/ CheckUser
    \/ CreateProfile \/ CreateUser \/ UpdateUser \/ RemoveUser

SpecConfig == Init /\ [][NextConfig]_vars

(***************************************************************************)
(* Calls of the control client that overlap in time: several callers       *)
(* (threads) use one CameraControl object.  A call builds its request from *)
(* its arguments, the stored target and the clock, sends it, waits for the *)
(* reply on its own connection and computes its result; everything it      *)
(* works on is local to the call.                                          *)
(*   tasks[t].pc       idle, built (request built), waiting (request sent) *)
(*                     or done (reply handled)                             *)
(*   tasks[t].request  payload2, url and auth, the call's local variables  *)
(*   tasks[t].wire     the request requests.get sent                       *)
(*   tasks[t].resp     the reply requests.get returned to the call         *)
(*   tasks[t].outcome  what the call gave its caller                       *)
(***************************************************************************)
\* The operation op of the control client called with the arguments args.
Invoke(op, args, resp) ==
    CASE op = "absolute_move" -> absolute_move(args.pan, args.tilt, args.zoom, args.speed, resp)
      [] op = "continuous_move" -> continuous_move(args.pan, args.tilt, args.zoom, resp)
      [] op = "relative_move" -> relative_move(args.pan, args.tilt, args.zoom, args.speed, resp)
      [] op = "stop_move" -> stop_move(resp)
      [] op = "center_move" -> center_move(args.pos_x, args.pos_y, args.speed, resp)
      [] op = "area_zoom" -> area_zoom(args.pos_x, args.pos_y, args.zoom, args.speed, resp)
      [] op = "move" -> move(args.position, args.speed, resp)
      [] op = "go_home_position" -> go_home_position(args.speed, resp)
      [] op = "get_ptz" -> get_ptz(resp)
      [] op = "go_to_server_preset_name" -> go_to_server_preset_name(args.name, args.speed, resp)
      [] op = "go_to_server_preset_no" -> go_to_server_preset_no(args.number, args.speed, resp)
      [] op = "go_to_device_preset" -> go_to_device_preset(args.preset_pos, args.speed, resp)
      [] op = "list_preset_device" -> list_preset_device(resp)
      [] op = "list_all_preset" -> list_all_preset(resp)
      [] op = "set_speed" -> set_speed(args.speed, resp)
      [] op = "get_speed" -> get_speed(resp)
      [] op = "info_ptz_comands" -> info_ptz_comands(resp)

\* The calls the concurrent callers make, and the replies they get.
ConcurrentCalls ==
    {[op |-> "stop_move", args |-> NoArgs],
     [op |-> "set_speed", args |-> [speed |-> Some("50")]],
     [op |-> "get_speed", args |-> NoArgs]}

ConcurrentReplies ==
    {Response(200, "speed=100\r\n"), Response(401, "Error: unauthorized"),
     Response(500, "Error: invalid value")}

\* Variant: the request is kept in an attribute of the client, where the
\* call of another caller that has built its own overwrites it.
request_ofShared(t) ==
    LET others == {u \in Threads : u # t /\ tasks[u].pc # "idle"}
    IN  IF others = {} THEN tasks[t].request
        ELSE tasks[CHOOSE u \in others : TRUE].request

\* The request a call passes to requests.get: its own local variables.
request_of(t) == tasks[t].request

\* Lines 54-63: base_q_args (the clock is read), payload2 and url.
Build(t) ==
    /\ alive
    /\ tasks[t].pc = "idle"
    /\ \E c \in ConcurrentCalls :
           tasks' = [tasks EXCEPT ![t] =
                        [pc |-> "built", op |-> c.op, args |-> c.args,
                         request |-> Invoke(c.op, c.args, NoResponse).request]]
    /\ UNCHANGED <<cam, clock, alive, call, sent, result, moving, device, onvif, worker>>

\* Lines 64-65: requests.get sends the request and waits.
Send(t) ==
    /\ alive
    /\ tasks[t].pc = "built"
    /\ tasks' = [tasks EXCEPT ![t] =
                    [pc |-> "waiting", op |-> tasks[t].op, args |-> tasks[t].args,
                     request |-> tasks[t].request, wire |-> request_of(t)]]
    /\ UNCHANGED <<cam, clock, alive, call, sent, result, moving, device, onvif, worker>>

\* Lines 65-75, and the rest of the operation: the reply arrives on the
\* call's connection and the call ends.  sys.exit in one caller's thread
\* ends that caller; the other callers go on.
Receive(t) ==
    /\ alive
    /\ tasks[t].pc = "waiting"
    /\ \E resp \in ConcurrentReplies :
           tasks' = [tasks EXCEPT ![t] =
                        [pc |-> "done", op |-> tasks[t].op, args |-> tasks[t].args,
                         request |-> tasks[t].request, wire |-> tasks[t].wire,
                         resp |-> resp,
                         outcome |-> Invoke(tasks[t].op, tasks[t].args, resp).outcome]]
    /\ UNCHANGED <<cam, clock, alive, call, sent, result, moving, device, onvif, worker>>

\* The caller takes the result and is free for its next call.
Leave(t) ==
    /\ alive
    /\ tasks[t].pc = "done"
    /\ tasks' = [tasks EXCEPT ![t] = Idle]
    /\ UNCHANGED <<cam, clock, alive, call, sent, result, moving, device, onvif, worker>>

NextConcurrent ==
    \/ Tick
    \/ \E t \in Threads : Build(t)
    \/ \E t \in Threads : Send(t)
    \/ \E t \in Threads : Receive(t)
    \/ \E t \in Threads : Leave(t)

SpecConcurrent == Init /\ [][NextConcurrent]_vars

(***************************************************************************)
(* Two configuration clients create accounts and profiles on one camera    *)
(* at the same time.  create_user and create_profile are two round trips:  *)
(* the listing request of the check, and then the add request; the camera  *)
(* serves the requests of both clients in the order they arrive.           *)
(*   tasks[t].listing   the reply to the client's listing request          *)
(*   tasks[t].requests  the requests the call has sent so far              *)
(*   tasks[t].replies   the replies to them                                *)
(***************************************************************************)
RaceCalls ==
    {[op |-> "create_user", name |-> n] : n \in NewUsers}
        \cup {[op |-> "create_profile", name |-> n] : n \in NewProfiles}

\* Variant: the add request is sent without looking at the listing.
CreateUnchecked(op, name, listResp, addResp) ==
    IF op = "create_user"
    THEN create_user(name, "pw", "viewer", None, None,
                     Response(200, UserListing(<<"root">>)), addResp)
    ELSE create_profile(name, None, None, None, None, None, None, None, None,
                        Response(200, "root.StreamProfile.MaxGroups=26\n"), addResp)

\* The call of a creating operation, given the replies to its requests.
Create(op, name, listResp, addResp) ==
    IF op = "create_user"
    THEN create_user(name, "pw", "viewer", None, None, listResp, addResp)
    ELSE create_profile(name, None, None, None, None, None, None, None, None,
                        listResp, addResp)

\* The camera's reply to a listing request.
ListingFor(op) ==
    IF op = "create_user" THEN Response(200, UserListing(device.users))
    ELSE Response(200, ProfileListing(device.profiles))

Holds(list, name) == \E i \in 1..Len(list) : list[i] = name

\* The camera serves an add request: a name it already holds is refused.
AddReply(op, name) ==
    IF Holds(IF op = "create_user" THEN device.users ELSE device.profiles, name)
    THEN Response(500, "Error: invalid value")
    ELSE Response(200, "<html><body>OK</body></html>")

AfterAdd(op, name) ==
    IF op = "create_user"
    THEN IF Holds(device.users, name) THEN device
         ELSE [device EXCEPT !.users = Append(device.users, name)]
    ELSE IF Holds(device.profiles, name) THEN device
         ELSE [device EXCEPT !.profiles = Append(device.profiles, name)]

\* The first round trip: check_user or check_profile lists the names.
Check(t) ==
    /\ alive
    /\ tasks[t].pc = "idle"
    /\ \E c \in RaceCalls :
           LET listing == ListingFor(c.op)
               chk     == Create(c.op, c.name, listing, NoResponse)
           IN  tasks' = [tasks EXCEPT ![t] =
                            [pc |-> "checked", op |-> c.op, name |-> c.name,
                             listing |-> listing,
                             requests |-> SubSeq(chk.requests, 1, 1)]]
    /\ UNCHANGED <<cam, clock, alive, call, sent, result, moving, device, onvif, worker>>

\* The rest of the call: the verdict on the listing, and the add request
\* when the name was not in it.
Act(t) ==
    /\ alive
    /\ tasks[t].pc = "checked"
    /\ LET op      == tasks[t].op
           name    == tasks[t].name
           listing == tasks[t].listing
           adds    == Len(Create(op, name, listing, NoResponse).requests) = 2
           addResp == IF adds THEN AddReply(op, name) ELSE NoResponse
           c       == Create(op, name, listing, addResp)
       IN  /\ tasks' = [tasks EXCEPT ![t] =
                            [pc |-> "done", op |-> op, name |-> name, listing |-> listing,
                             requests |-> c.requests,
                             replies |-> SubSeq(<<listing, addResp>>, 1, Len(c.requests)),
                             outcome |-> c.outcome]]
           /\ device' = IF adds THEN AfterAdd(op, name) ELSE device
    /\ UNCHANGED <<cam, clock, alive, call, sent, result, moving, onvif, worker>>

NextRace ==
    \/ \E t \in Threads : Check(t)
    \/ \E t \in Threads : Act(t)
    \/ \E t \in Threads : Leave(t)

SpecRace == Init /\ [][NextRace]_vars

(***************************************************************************)
(* The ONVIF CameraControl, src/sensecam_control/onvif_control.py: the     *)
(* preset operations.  A request is the SOAP operation with the fields the *)
(* code sets; the reply to GetPresets is the list of presets.              *)
(***************************************************************************)
OnvifRequest(operation, profile, name, token) ==
    [operation |-> operation, ProfileToken |-> profile,
     PresetName |-> name, PresetToken |-> token]

\* Variant: the list is asked for once, when the client is set up, and
\* the copy kept then is handed out.
get_preset_completeCached(o, presets) ==
    IF o.camera_ptz = None
    THEN [requests |-> <<>>, outcome |-> Raise("AttributeError")]
    ELSE [requests |-> <<>>, outcome |-> Return(Device0.presets)]

\* self.camera_ptz is set by camera_start only: before it the attribute
\* access raises.
get_preset_complete(o, presets) ==
    IF o.camera_ptz = None
    THEN [requests |-> <<>>, outcome |-> Raise("AttributeError")]
    ELSE [requests |-> <<OnvifRequest("GetPresets", o.camera_media_profile, None, None)>>,
          outcome  |-> Return(presets)]

get_preset(o, presets) ==
    LET c == get_preset_complete(o, presets)
    IN  IF c.outcome.kind # "return" THEN c
        ELSE LET ptz_get_presets == c.outcome.val
             IN  [requests |-> c.requests,
                  outcome  |-> Return([i \in 1..Len(ptz_get_presets) |->
                                          <<i - 1, ptz_get_presets[i].Name>>])]

\* Variant: the last preset of that name is taken.
LastNamed(presets, name) ==
    LET hits == {i \in 1..Len(presets) : presets[i].Name = name}
    IN  IF hits = {} THEN 0 ELSE CHOOSE i \in hits : \A j \in hits : j <= i

\* The position of the first preset of that name, 0 when there is none.
FirstNamed(presets, name) ==
    LET hits == {i \in 1..Len(presets) : presets[i].Name = name}
    IN  IF hits = {} THEN 0 ELSE Min(hits)

\* Variant: the preset is stored without looking for its name in the list.
set_presetUnchecked(o, preset_name, presets, setResp) ==
    LET c == get_preset_complete(o, presets)
    IN  IF c.outcome.kind # "return" THEN c
        ELSE [requests |-> Append(c.requests,
                                  OnvifRequest("SetPreset", o.camera_media_profile,
                                               Some(preset_name), None)),
              outcome  |-> Return(setResp)]

set_preset(o, preset_name, presets, setResp) ==
    LET c == get_preset_complete(o, presets)
    IN  IF c.outcome.kind # "return" THEN c
        ELSE IF FirstNamed(c.outcome.val, preset_name) # 0
        THEN [requests |-> c.requests, outcome |-> Return(None)]
        ELSE [requests |-> Append(c.requests,
                                  OnvifRequest("SetPreset", o.camera_media_profile,
                                               Some(preset_name), None)),
              outcome  |-> Return(setResp)]

\* remove_preset and go_to_preset: the request for the first preset of
\* that name, None when there is none.
FindThenAct(o, operation, name, presets, actResp) ==
    LET c == get_preset_complete(o, presets)
    IN  IF c.outcome.kind # "return" THEN c
        ELSE LET i == FirstNamed(c.outcome.val, name)
             IN  IF i = 0 THEN [requests |-> c.requests, outcome |-> Return(None)]
                 ELSE [requests |-> Append(c.requests,
                                           OnvifRequest(operation, o.camera_media_profile,
                                                        None, Some(c.outcome.val[i].token))),
                       outcome  |-> Return(actResp)]

remove_preset(o, preset_name, presets, remResp) ==
    FindThenAct(o, "RemovePreset", preset_name, presets, remResp)

go_to_preset(o, preset_position, presets, gotoResp) ==
    FindThenAct(o, "GotoPreset", preset_position, presets, gotoResp)

\* A PTZ request of the move operations: the SOAP operation, the profile
\* token and the vector the code sets (Position, Velocity or Translation).
MoveRequest(operation, profile, vector) ==
    [operation |-> operation, ProfileToken |-> profile, PresetName |-> None,
     PresetToken |-> None, Vector |-> vector]

PanTiltZoom(pan, tilt, zoom) == Some([x |-> pan, y |-> tilt, Zoom |-> zoom])

\* The camera's answer to a PTZ request it rejects: the library raises.
Fault == Some([faultstring |-> "Action Failed"])

\* Variant: the token of the profile the camera listed first when the
\* client was created is sent, whatever camera_start stored.
PtzCallDefaultProfile(o, operation, vector, reply) ==
    IF o.camera_ptz = None
    THEN [requests |-> <<>>, outcome |-> Raise("AttributeError")]
    ELSE [requests |-> <<MoveRequest(operation, Some(Device0.media_profiles[1]), vector)>>,
          outcome  |-> IF reply = Fault THEN Raise("ONVIFError") ELSE Return(reply)]

\* request = self.camera_ptz.create_type(operation); request.ProfileToken =
\* self.camera_media_profile.token; resp = self.camera_ptz.<operation>(request)
PtzCall(o, operation, vector, reply) ==
    IF o.camera_ptz = None
    THEN [requests |-> <<>>, outcome |-> Raise("AttributeError")]
    ELSE [requests |-> <<MoveRequest(operation, o.camera_media_profile, vector)>>,
          outcome  |-> IF reply = Fault THEN Raise("ONVIFError") ELSE Return(reply)]

onvif_absolute_move(o, pan, tilt, zoom, reply) ==
    PtzCall(o, "AbsoluteMove", PanTiltZoom(pan, tilt, zoom), reply)

onvif_continuous_move(o, pan, tilt, zoom, reply) ==
    PtzCall(o, "ContinuousMove", PanTiltZoom(pan, tilt, zoom), reply)

onvif_relative_move(o, pan, tilt, zoom, reply) ==
    PtzCall(o, "RelativeMove", PanTiltZoom(pan, tilt, zoom), reply)

onvif_stop_move(o, reply) == PtzCall(o, "Stop", None, reply)

\* SetHomePosition, then Stop with the same profile token; the reply to
\* the first request is returned.
onvif_set_home_position(o, reply, stopReply) ==
    LET c == PtzCall(o, "SetHomePosition", None, reply)
        d == PtzCall(o, "Stop", None, stopReply)
    IN  IF c.outcome.kind # "return" THEN c
        ELSE [requests |-> c.requests \o d.requests,
              outcome  |-> IF d.outcome.kind # "return" THEN d.outcome ELSE c.outcome]

onvif_go_home_position(o, reply) == PtzCall(o, "GotoHomePosition", None, reply)

\* The tuple (pan, tilt, zoom) of the status the camera reports.
onvif_get_ptz(o, ptz_status) ==
    LET c == PtzCall(o, "GetStatus", None, ptz_status)
    IN  IF c.outcome.kind # "return" THEN c
        ELSE [requests |-> c.requests,
              outcome  |-> Return(<<ptz_status[1].x, ptz_status[1].y, ptz_status[1].Zoom>>)]

\* camera_start: the connection, the two services, then the first of the
\* profiles the camera lists; the attributes are assigned after all of it.
camera_start(reachable, profiles) ==
    IF ~reachable
    THEN [requests |-> <<>>, outcome |-> Raise("ONVIFError")]
    ELSE [requests |-> <<OnvifRequest("GetProfiles", None, None, None)>>,
          outcome  |-> IF profiles = <<>> THEN Raise("IndexError")
                       ELSE Return(<<"ptz", profiles[1]>>)]

\* The presets the camera holds after it served the requests of a call.
RECURSIVE Served(_, _)
Served(presets, requests) ==
    IF requests = <<>> THEN presets
    ELSE LET r == Head(requests)
             after == IF r.operation = "SetPreset" THEN AddPreset(presets, r.PresetName[1])
                      ELSE IF r.operation = "RemovePreset"
                      THEN DropPreset(presets, r.PresetToken[1])
                      ELSE presets
         IN  Served(after, Tail(requests))

\* The camera's reply to SetPreset (the new token), and to RemovePreset
\* and GotoPreset (empty).
SetPresetReply(presets) == Some(FreeToken(presets))

EmptyReply == None

(***************************************************************************)
(* State machine of the preset operations of both control clients on one   *)
(* camera, whose presets are also edited by others.                        *)
(***************************************************************************)
DoOnvif(op, args, replies, c) ==
    /\ alive
    /\ Len(Served(device.presets, c.requests)) <= MaxPresets
    /\ call' = [op |-> op, args |-> args, replies |-> SubSeq(replies, 1, Len(c.requests))]
    /\ sent' = c.requests
    /\ result' = c.outcome
    /\ device' = [device EXCEPT !.presets = Served(device.presets, c.requests)]
    /\ UNCHANGED <<cam, clock, alive, moving, onvif, tasks, worker>>

\* camera_start: the media profile is the first one the camera lists; a
\* call that raises leaves the attributes as they were.
CameraStart ==
    \E reachable \in BOOLEAN :
        LET c == camera_start(reachable, device.media_profiles)
        IN  /\ alive
            /\ call' = [op |-> "camera_start", args |-> NoArgs,
                        replies |-> IF c.requests = <<>> THEN <<>>
                                    ELSE <<device.media_profiles>>]
            /\ sent' = c.requests
            /\ result' = c.outcome
            /\ onvif' = IF c.outcome.kind = "return"
                        THEN [camera_ptz |-> Some(c.outcome.val[1]),
                              camera_media_profile |-> Some(c.outcome.val[2])]
                        ELSE onvif
            /\ UNCHANGED <<cam, clock, alive, moving, device, tasks, worker>>

GetPreset ==
    DoOnvif("get_preset", NoArgs, <<device.presets>>, get_preset(onvif, device.presets))

SetPreset ==
    \E preset_name \in PresetNames :
        DoOnvif("set_preset", [preset_name |-> Some(preset_name)],
                <<device.presets, SetPresetReply(device.presets)>>,
                set_preset(onvif, preset_name, device.presets,
                           SetPresetReply(device.presets)))

RemovePreset ==
    \E preset_name \in PresetNames :
        DoOnvif("remove_preset", [preset_name |-> Some(preset_name)],
                <<device.presets, EmptyReply>>,
                remove_preset(onvif, preset_name, device.presets, EmptyReply))

GoToPreset ==
    \E preset_position \in PresetNames :
        DoOnvif("go_to_preset", [preset_position |-> Some(preset_position)],
                <<device.presets, EmptyReply>>,
                go_to_preset(onvif, preset_position, device.presets, EmptyReply))

\* The VAPIX listings of the same camera.
DeviceListsAllPreset ==
    LET resp == Response(200, PresetListing(device.presets))
    IN  Do("list_all_preset", NoArgs, resp, list_all_preset(resp))

DeviceListsPresetDevice ==
    LET resp == Response(200, PresetListing(device.presets))
    IN  Do("list_preset_device", NoArgs, resp, list_preset_device(resp))

\* Someone else stores a preset on the camera, or removes one.
OtherStoresPreset ==
    /\ alive
    /\ Len(device.presets) < MaxPresets
    /\ \E name \in PresetNames :
           device' = [device EXCEPT !.presets = AddPreset(device.presets, name)]
    /\ UNCHANGED <<cam, clock, alive, call, sent, result, moving, onvif, tasks, worker>>

OtherRemovesPreset ==
    /\ alive
    /\ \E i \in 1..Len(device.presets) :
           device' = [device EXCEPT !.presets = DropPreset(device.presets, device.presets[i].token)]
    /\ UNCHANGED <<cam, clock, alive, call, sent, result, moving, onvif, tasks, worker>>

NextPresets ==
    \/ CameraStart \/ GetPreset \/ SetPreset \/ RemovePreset \/ GoToPreset
    \/ DeviceListsAllPreset \/ DeviceListsPresetDevice
    \/ OtherStoresPreset \/ OtherRemovesPreset

SpecPresets == Init /\ [][NextPresets]_vars

(***************************************************************************)
(* State machine of one ONVIF client that alone edits the camera's         *)
(* presets, on a camera whose media profiles are changed by others.        *)
(***************************************************************************)
Axis == {0, 1}

Replies == {EmptyReply, Fault}

PtzStatuses == {Some([x |-> 0, y |-> 0, Zoom |-> 1]), Fault}

\* The media profiles the camera can come to list, by token.
MediaProfileLists ==
    {<<"profile_1_h264">>, <<"profile_2_jpeg", "profile_1_h264">>, <<>>}

OnvifAbsoluteMove ==
    \E pan \in Axis, zoom \in Axis, reply \in Replies :
        DoOnvif("absolute_move", [pan |-> pan, tilt |-> 0, zoom |-> zoom], <<reply>>,
                onvif_absolute_move(onvif, pan, 0, zoom, reply))

OnvifContinuousMove ==
    \E pan \in Axis, reply \in Replies :
        DoOnvif("continuous_move", [pan |-> pan, tilt |-> 0, zoom |-> 0], <<reply>>,
                onvif_continuous_move(onvif, pan, 0, 0, reply))

OnvifRelativeMove ==
    \E tilt \in Axis, reply \in Replies :
        DoOnvif("relative_move", [pan |-> 0, tilt |-> tilt, zoom |-> 0], <<reply>>,
                onvif_relative_move(onvif, 0, tilt, 0, reply))

OnvifStopMove ==
    \E reply \in Replies :
        DoOnvif("stop_move", NoArgs, <<reply>>, onvif_stop_move(onvif, reply))

OnvifSetHomePosition ==
    \E reply \in Replies, stopReply \in Replies :
        DoOnvif("set_home_position", NoArgs, <<reply, stopReply>>,
                onvif_set_home_position(onvif, reply, stopReply))

OnvifGoHomePosition ==
    \E reply \in Replies :
        DoOnvif("go_home_position", NoArgs, <<reply>>, onvif_go_home_position(onvif, reply))

OnvifGetPtz ==
    \E ptz_status \in PtzStatuses :
        DoOnvif("get_ptz", NoArgs, <<ptz_status>>, onvif_get_ptz(onvif, ptz_status))

\* Someone else adds, removes or reorders media profiles on the camera.
OtherChangesProfiles ==
    /\ alive
    /\ \E profiles \in MediaProfileLists \ {device.media_profiles} :
           device' = [device EXCEPT !.media_profiles = profiles]
    /\ UNCHANGED <<cam, clock, alive, call, sent, result, moving, onvif, tasks, worker>>

NextOnvif ==
    \/ CameraStart
    \/ OnvifAbsoluteMove \/ OnvifContinuousMove \/ OnvifRelativeMove \/ OnvifStopMove
    \/ OnvifSetHomePosition \/ OnvifGoHomePosition \/ OnvifGetPtz
    \/ GetPreset \/ SetPreset \/ RemovePreset \/ GoToPreset
    \/ OtherChangesProfiles

SpecOnvif == Init /\ [][NextOnvif]_vars

(***************************************************************************)
(* The example program, src/example.py: one thread runs capture, whose     *)
(* loop reads a frame, tests exit_program, shows the frame and hands the   *)
(* key pressed to event_keyboard, which calls the VAPIX CameraControl X.   *)
(*   worker.pc            where the thread is in capture                   *)
(*   worker.exit_program  the global flag                                  *)
(*   worker.ret           whether the last cap.read() gave a frame         *)
(*   worker.k             the last value of cv2.waitKey(1) & 0xff          *)
(***************************************************************************)
ord(c) ==
    CASE c = "w" -> 119 [] c = "W" -> 87 [] c = "a" -> 97 [] c = "A" -> 65
      [] c = "s" -> 115 [] c = "S" -> 83 [] c = "d" -> 100 [] c = "D" -> 68
      [] c = "h" -> 104 [] c = "H" -> 72 [] c = "x" -> 120

\* What waitKey(1) & 0xff can give: 255 when no key was pressed.
Keys == {27, 255, ord("w"), ord("A"), ord("s"), ord("d"), ord("H"), ord("x")}

NoCommand == [op |-> "", pan |-> None, tilt |-> None, exit_program |-> 0]

\* event_keyboard(k): the flag it sets or the one call it makes on X.
event_keyboard(k) ==
    IF k = 27 THEN [NoCommand EXCEPT !.exit_program = 1]
    ELSE IF k = ord("w") \/ k = ord("W")
    THEN [NoCommand EXCEPT !.op = "relative_move", !.tilt = Some("1")]
    ELSE IF k = ord("a") \/ k = ord("A")
    THEN [NoCommand EXCEPT !.op = "relative_move", !.pan = Some("-1")]
    ELSE IF k = ord("s") \/ k = ord("S")
    THEN [NoCommand EXCEPT !.op = "relative_move", !.tilt = Some("-1")]
    ELSE IF k = ord("d") \/ k = ord("D")
    THEN [NoCommand EXCEPT !.op = "relative_move", !.pan = Some("1")]
    ELSE IF k = ord("h") \/ k = ord("H")
    THEN [NoCommand EXCEPT !.op = "go_home_position"]
    ELSE NoCommand

\* cap = cv2.VideoCapture(ip2)
OpenCapture ==
    /\ worker.pc = "open"
    /\ worker' = [worker EXCEPT !.pc = "wait"]
    /\ UNCHANGED <<cam, clock, alive, call, sent, result, moving, device, onvif, tasks>>

\* The first loop: cap.read() until it gives a frame.
WaitFrame ==
    /\ worker.pc = "wait"
    /\ \E ret \in BOOLEAN :
           worker' = [worker EXCEPT !.ret = ret, !.pc = IF ret THEN "read" ELSE "wait"]
    /\ UNCHANGED <<cam, clock, alive, call, sent, result, moving, device, onvif, tasks>>

\* ret, frame = cap.read() at the head of the second loop.
ReadFrame ==
    /\ worker.pc = "read"
    /\ \E ret \in BOOLEAN : worker' = [worker EXCEPT !.ret = ret, !.pc = "test"]
    /\ UNCHANGED <<cam, clock, alive, call, sent, result, moving, device, onvif, tasks>>

\* Variant: the flag is not looked at.
CheckExitIgnored ==
    /\ worker.pc = "test"
    /\ worker' = [worker EXCEPT !.pc = "show"]
    /\ UNCHANGED <<cam, clock, alive, call, sent, result, moving, device, onvif, tasks>>

\* if exit_program == 1: sys.exit(), which ends the thread.
CheckExit ==
    /\ worker.pc = "test"
    /\ worker' = [worker EXCEPT !.pc = IF worker.exit_program = 1 THEN "done" ELSE "show"]
    /\ UNCHANGED <<cam, clock, alive, call, sent, result, moving, device, onvif, tasks>>

\* cv2.imshow('Camera', frame): with no frame (ret False, frame None) it
\* raises and the thread ends.
ShowFrame ==
    /\ worker.pc = "show"
    /\ worker' = [worker EXCEPT !.pc = IF worker.ret THEN "poll" ELSE "done"]
    /\ UNCHANGED <<cam, clock, alive, call, sent, result, moving, device, onvif, tasks>>

\* cv2.waitKey(1) & 0xff
PollKeyboard ==
    /\ worker.pc = "poll"
    /\ \E k \in Keys : worker' = [worker EXCEPT !.k = k, !.pc = "key"]
    /\ UNCHANGED <<cam, clock, alive, call, sent, result, moving, device, onvif, tasks>>

\* event_keyboard(k) in the capture thread: the call on X is made and
\* waited for there; sys.exit(1) inside it (status 401) ends the thread.
EventKeyboard ==
    /\ worker.pc = "key"
    /\ LET e == event_keyboard(worker.k)
       IN  IF e.op = ""
           THEN /\ worker' = [worker EXCEPT !.exit_program =
                                                IF e.exit_program = 1 THEN 1 ELSE @,
                                            !.pc = "read"]
                /\ UNCHANGED <<cam, clock, alive, call, sent, result, moving, device,
                               onvif, tasks>>
           ELSE \E resp \in Responses :
                    LET c == IF e.op = "relative_move"
                             THEN relative_move(e.pan, e.tilt, None, None, resp)
                             ELSE go_home_position(None, resp)
                        args == IF e.op = "relative_move"
                                THEN [pan |-> e.pan, tilt |-> e.tilt, zoom |-> None,
                                      speed |-> None]
                                ELSE [speed |-> None]
                    IN  /\ Called(e.op, args, resp, c)
                        /\ worker' = [worker EXCEPT !.pc = IF c.outcome.kind = "exit"
                                                           THEN "done" ELSE "read"]

NextExample ==
    \/ OpenCapture \/ WaitFrame \/ ReadFrame \/ CheckExit \/ ShowFrame
    \/ PollKeyboard \/ EventKeyboard

\* The thread is scheduled, and a cap.read() that was begun returns.
SpecExample ==
    Init /\ [][NextExample]_vars /\ WF_vars(ReadFrame) /\ WF_vars(CheckExit)

(***************************************************************************)
(* Properties of the control client.                                       *)
(***************************************************************************)
ControlOps ==
    {"absolute_move", "continuous_move", "relative_move", "stop_move", "center_move",
     "area_zoom", "move", "go_home_position", "get_ptz", "go_to_server_preset_name",
     "go_to_server_preset_no", "go_to_device_preset", "list_preset_device",
     "list_all_preset", "set_speed", "get_speed", "info_ptz_comands"}

PtzCommandOps ==
    {"absolute_move", "continuous_move", "relative_move", "center_move", "area_zoom",
     "move", "go_home_position", "go_to_server_preset_name", "go_to_server_preset_no",
     "go_to_device_preset", "set_speed"}

\* The request key under which an operation sends an argument.
KeyOfArg(op, a) ==
    CASE op = "relative_move" /\ a \in {"pan", "tilt", "zoom"} -> "r" \o a
      [] op = "continuous_move" /\ a \in {"pan", "tilt"} -> "continuouspantiltmove"
      [] op = "continuous_move" /\ a = "zoom" -> "continuouszoommove"
      [] op = "center_move" /\ a \in {"pos_x", "pos_y"} -> "center"
      [] op = "area_zoom" /\ a \in {"pos_x", "pos_y", "zoom"} -> "areazoom"
      [] op = "move" /\ a = "position" -> "move"
      [] op = "go_to_server_preset_name" /\ a = "name" -> "gotoserverpresetname"
      [] op = "go_to_server_preset_no" /\ a = "number" -> "gotoserverpresetno"
      [] op = "go_to_device_preset" /\ a = "preset_pos" -> "gotodevicepreset"
      [] OTHER -> a

\* C1: for every PTZ command operation and every subset of its optional
\* arguments, the request has no key for an argument that was not supplied.
C1_OmitsUnsuppliedKeys ==
    call.op \in PtzCommandOps =>
        \A a \in DOMAIN call.args :
            call.args[a] = None => KeyOfArg(call.op, a) \notin DOMAIN sent[1].params

\* C2: a control operation answered with status 401 returns to its caller,
\* and the caller keeps control after the call.
C2_Status401Returns ==
    (call.op \in ControlOps /\ call.replies[1].status = 401) =>
        (result.kind = "return" /\ alive)

\* The text a call's result carries: the reply's text for the operations
\* that hand back the reply, the returned text for info_ptz_comands, and
\* for a raised exception its name; a parsed value carries no text.
ResultMessage ==
    IF result.kind # "return" THEN result.exc
    ELSE IF call.op = "info_ptz_comands" THEN result.val
    ELSE IF call.op \in {"get_ptz", "get_speed", "list_all_preset"} THEN ""
    ELSE result.val.text

\* C3: a control operation answered with status 500 and the body
\* "Error: invalid value" gives its caller a result whose message contains
\* "invalid value".
C3_Status500CarriesErrorText ==
    (call.op \in ControlOps /\ call.replies[1] = Response(500, "Error: invalid value")) =>
        Contains(ResultMessage, "invalid value")

\* C4 as stated: on the two-line body of the specification every preset
\* line gives a pair, [(1, "Entrance"), (5, "Dock")].
C4_EveryPresetLineListed ==
    (/\ call.op = "list_all_preset"
     /\ call.replies[1] = Response(200, "presetposno1=Entrance\r\npresetposno5=Dock\r\n"))
        => result = Return(<<<<1, "Entrance">>, <<5, "Dock">>>>)

\* The pairs of the lines that lie after the first line and before the
\* piece that follows the last line break, for the modelled preset bodies.
PresetsAfterFirstLine(text) ==
    CASE text = "presetposno1=Entrance\r\npresetposno5=Dock\r\n"
            -> <<<<5, "Dock">>>>
      [] text = "Preset Positions for camera 1\r\npresetposno1=Entrance\r\npresetposno5=Dock\r\n"
            -> <<<<1, "Entrance">>, <<5, "Dock">>>>
      [] text = "Preset Positions for camera 1\r\npresetposno3=Gate\r\n"
            -> <<<<3, "Gate">>>>

\* C4 (amended): list_all_preset skips the first line of the body (the
\* device's heading) and the piece after the last line break, and returns
\* one (index, name) pair for every line in between, in the order of the
\* lines, with the index taken from the key suffix.
C4_ListsLinesAfterFirst ==
    (/\ call.op = "list_all_preset"
     /\ call.replies[1].status = 200
     /\ call.replies[1].text \in PresetBodies)
        => result = Return(PresetsAfterFirstLine(call.replies[1].text))

C4_Witness ==
    /\ call.op = "list_all_preset"
    /\ call.replies[1].status = 200
    /\ result.kind = "return"
    /\ Len(result.val) = 2
    /\ result.val[2] = <<5, "Dock">>

\* The triple in the order of the tokens, for the modelled position bodies.
PositionByOrder(text) ==
    CASE text = "pan=12.5 tilt=-3.0 zoom=1000\r\n"
            -> <<Float(125, 10), Float(-3, 1), Float(1000, 1)>>
      [] text = "tilt=7 pan=-0.5 zoom=20\r\n"
            -> <<Float(7, 1), Float(-5, 10), Float(20, 1)>>
      [] text = "pan=1.0\r\ntilt=2\r\nzoom=3\r\nautofocus=on\r\n"
            -> <<Float(1, 1), Float(2, 1), Float(3, 1)>>

\* C5: get_ptz returns the values after '=' of the first, second and third
\* whitespace-separated tokens of the body, by position and not by key
\* name; "pan=12.5 tilt=-3.0 zoom=1000\r\n" gives (12.5, -3.0, 1000.0).
C5_GetPtzPositional ==
    (/\ call.op = "get_ptz"
     /\ call.replies[1].status = 200
     /\ call.replies[1].text \in PtzBodies)
        => result = Return(PositionByOrder(call.replies[1].text))

C5_Witness ==
    /\ call.op = "get_ptz"
    /\ call.replies[1] = Response(200, "tilt=7 pan=-0.5 zoom=20\r\n")
    /\ result.kind = "return"
    /\ result.val[1] = [num |-> 7, den |-> 1]

\* C6: whatever came before, stop_move sends continuouspantiltmove "0,0"
\* and continuouszoommove 0, both keys present.
C6_StopMoveSendsZero ==
    call.op = "stop_move" =>
        /\ Len(sent) = 1
        /\ "continuouspantiltmove" \in DOMAIN sent[1].params
        /\ sent[1].params["continuouspantiltmove"] = "0,0"
        /\ "continuouszoommove" \in DOMAIN sent[1].params
        /\ sent[1].params["continuouszoommove"] = "0"

\* stop_move was called while a continuous move started earlier was still
\* going on.
C6_Witness ==
    /\ call.op = "stop_move"
    /\ moving
    /\ clock > 0

\* The operations that hand the primitive's return value to their caller.
HandBackOps == PtzCommandOps \cup {"stop_move", "list_preset_device"}

\* The operations that parse the body of the reply.
ParsingOps == {"get_ptz", "get_speed", "list_all_preset"}

ShapedFor(op) ==
    CASE op = "get_ptz" -> PtzBodies
      [] op = "get_speed" -> SpeedBodies
      [] op = "list_all_preset" -> PresetBodies

\* C12: when the body of a 200 reply to get_ptz, get_speed or
\* list_all_preset does not have the shape the operation parses, the call
\* fails with an error of its own ("unexpected response shape") and not
\* with an index or number-format error.
C12_ShapeErrorOnMalformedBody ==
    (/\ call.op \in ParsingOps
     /\ call.replies[1].status = 200
     /\ call.replies[1].text \notin ShapedFor(call.op))
        => /\ result.kind = "raise"
           /\ result.exc \notin {"IndexError", "ValueError"}

\* C13: from one request of the control client to the next the timestamp
\* increases, so a call repeated with the same arguments never sends the
\* query string of the call before it, whatever the time between the two.
C13_TimestampIncreases ==
    [][(sent # <<>> /\ clock' = clock) =>
          /\ sent'[1].params["timestamp"] > sent[1].params["timestamp"]
          /\ (call'.op = call.op /\ call'.args = call.args)
                 => sent'[1].params # sent[1].params]_vars

\* C14: every operation of the control client is one call of the
\* primitive: one request, to /axis-cgi/com/ptz.cgi, carrying the
\* primitive's base parameters; the call ends with that request's reply
\* and no request is left unanswered.
C14_OneRequestPerOperation ==
    call.op \in ControlOps =>
        /\ Len(sent) = 1
        /\ sent[1].url = "http://" \o cam.ip \o "/axis-cgi/com/ptz.cgi"
        /\ {"camera", "html", "timestamp"} \subseteq DOMAIN sent[1].params
        /\ sent[1].params["camera"] = "1"
        /\ sent[1].params["html"] = "no"
        /\ sent[1].params["timestamp"] <= clock
        /\ Len(call.replies) = Len(sent)

\* A parsing operation answered with a failure status has ended with its
\* single request.
C14_Witness ==
    /\ call.op = "get_ptz"
    /\ call.replies[1].status = 404
    /\ Len(sent) = 1
    /\ result.kind = "raise"

(***************************************************************************)
(* Properties of the configuration client.                                 *)
(***************************************************************************)
ConfigOps ==
    {"get_date_and_time", "set_date", "set_time", "set_dynamic_text_overlay",
     "set_hostname", "auto_focus", "check_profile", "check_user", "create_profile",
     "create_user", "update_user", "remove_user"}

\* The reply to the first request of the call, the listing for the
\* operations that start with an existence check.
Listing == call.replies[1]

LastReply == call.replies[Len(call.replies)]

\* The account names each modelled listing holds in its users line.
ListedUsers(text) ==
    CASE text = "admin=\"root\"\r\nusers=\"root,joe\"\r\n" -> {"root", "joe"}
      [] text = "admin=\"ann\"\nusers=\"root\"\n" -> {"root"}
      [] OTHER -> {}

\* C7: create_user first lists the users; a name in the list gives
\* "already exists" and no add request; an add request is sent only after
\* a check that found the name absent.
C7_CreateUserChecksFirst ==
    call.op = "create_user" =>
        LET user == call.args.user[1]
        IN  /\ Len(sent) >= 1
            /\ sent[1].url = "http://" \o cam.ip \o "/axis-cgi/pwdgrp.cgi"
            /\ sent[1].params = [action |-> "get"]
            /\ (Listing.status = 200 /\ user \in ListedUsers(Listing.text))
                   => /\ Len(sent) = 1
                      /\ result = Return(PyStr(user \o " already exists."))
            /\ \A i \in 1..Len(sent) :
                   sent[i].params["action"] = "add"
                       => /\ i = 2
                          /\ Listing.status = 200
                          /\ user \notin ListedUsers(Listing.text)

C7_Witness ==
    /\ call.op = "create_user"
    /\ call.args.user = Some("joe")
    /\ Listing = Response(200, "admin=\"root\"\r\nusers=\"root,joe\"\r\n")
    /\ Len(sent) = 1
    /\ result = Return(PyStr("joe already exists."))

\* The profile names each modelled listing holds.
ListedProfiles(text) ==
    CASE text = "root.StreamProfile.S0.Name=HD\nroot.StreamProfile.S0.Parameters=fps=30\n"
            -> {"HD"}
      [] text = "root.StreamProfile.S0.Name=HD\r\nroot.StreamProfile.S0.Parameters=fps=30\r\n"
            -> {"HD"}
      [] OTHER -> {}

\* C8: create_profile first lists the stream profiles; when a profile of
\* the given name exists it refuses with an "already exists" message and
\* sends no add request.
C8_CreateProfileRefusesExisting ==
    (/\ call.op = "create_profile"
     /\ Listing.status = 200
     /\ call.args.name[1] \in ListedProfiles(Listing.text))
        => /\ Len(sent) = 1
           /\ result.kind = "return"
           /\ Contains(result.val.s, "already exists")

\* C9: every configuration operation returns the text (or its parsed
\* value) on success and, on any other status, a string that holds the
\* response status and the device's error text; none raises instead.
C9_ConfigReturnsTextOrError ==
    call.op \in ConfigOps =>
        /\ result.kind = "return"
        /\ LastReply.status # 200
               => /\ result.val.t = "str"
                  /\ Contains(result.val.s, NatStr(LastReply.status))
                  /\ Contains(result.val.s, get_text[LastReply.text])

\* The request key under which a configuration operation sends an argument;
\* "" for an argument that is not sent as a key of its own.
CfgKeyOfArg(op, a) ==
    CASE op = "set_date" /\ a = "year_date" -> "year"
      [] op = "set_date" /\ a = "month_date" -> "month"
      [] op = "set_date" /\ a = "day_date" -> "day"
      [] op = "set_hostname" /\ a = "hostname" -> "Network.HostName"
      [] op = "set_hostname" /\ a = "set_dhcp" -> "Network.VolatileHostName.ObtainFromDHCP"
      [] op = "auto_focus" /\ a = "focus" -> "autofocus"
      [] op = "create_profile" /\ a = "name" -> "StreamProfile.S.Name"
      [] op = "create_profile" /\ a # "name" -> ""
      [] op \in {"check_profile", "check_user"} -> ""
      [] op \in {"create_user", "update_user"} /\ a = "password" -> "pwd"
      [] op \in {"create_user", "update_user"} /\ a = "group" -> "grp"
      [] op \in {"create_user", "update_user"} /\ a = "sgroup" -> "sgrp"
      [] OTHER -> a

\* The keys an operation sends whatever its arguments.
FixedKeys(op) ==
    IF op \in {"check_profile", "create_profile"}
    THEN {"action", "group", "template", "StreamProfile.S.Parameters"}
    ELSE {"action"}

ProvidedKeys(op) ==
    {CfgKeyOfArg(op, a) : a \in {b \in DOMAIN call.args : call.args[b] # None}}

\* C10 as stated: besides the fixed keys, a request holds only the keys
\* whose values the caller provided.
C10_OnlyProvidedKeys ==
    call.op \in ConfigOps =>
        \A i \in 1..Len(sent) :
            DOMAIN sent[i].params \subseteq FixedKeys(call.op) \cup ProvidedKeys(call.op)

\* The keys sent with the default of the signature when the caller leaves
\* the argument out: group: str = 'users'.
DefaultedKeys(op) == IF op \in {"create_user", "update_user"} THEN {"grp"} ELSE {}

\* The create_profile argument behind each stream parameter.
ArgOfProfileKey(k) ==
    CASE k = "videocodec" -> "video_codec"
      [] k = "h264profile" -> "h264_profile"
      [] k = "videokeyframeinterval" -> "gop"
      [] k = "videobitrate" -> "bitrate"
      [] k = "videobitratepriority" -> "bitrate_priority"
      [] OTHER -> k

\* C10 (amended): besides the fixed keys, a request holds only the keys
\* whose values the caller provided and the keys whose argument has a
\* default other than None in the signature (grp, default 'users', of
\* create_user and update_user); the StreamProfile.S.Parameters value of
\* create_profile names exactly the stream parameters that were provided.
C10_OnlyProvidedOrDefaultedKeys ==
    call.op \in ConfigOps =>
        /\ \A i \in 1..Len(sent) :
               DOMAIN sent[i].params \subseteq
                   FixedKeys(call.op) \cup ProvidedKeys(call.op) \cup DefaultedKeys(call.op)
        /\ (call.op = "create_profile" /\ Len(sent) = 2)
               => \A j \in 1..Len(ProfileKeys) :
                      LET k == ProfileKeys[j]
                          v == call.args[ArgOfProfileKey(k)]
                      IN  IF v = None
                          THEN ~Contains(sent[2].params["StreamProfile.S.Parameters"], k \o "=")
                          ELSE Contains(sent[2].params["StreamProfile.S.Parameters"],
                                        k \o "=" \o v[1])

\* create_user without group and comment has sent its add request, and
\* create_profile has sent one with resolution only.
C10_Witness ==
    \/ /\ call.op = "create_user"
       /\ call.args.group = None
       /\ call.args.comment = None
       /\ Len(sent) = 2
       /\ DOMAIN sent[2].params = {"action", "user", "pwd", "grp", "sgrp"}
    \/ /\ call.op = "create_profile"
       /\ Len(sent) = 2
       /\ sent[2].params["StreamProfile.S.Parameters"] = "resolution=1920x1080"

(***************************************************************************)
(* Both VAPIX clients over their lifetime: any sequence of operations of   *)
(* the control client and of the configuration client on one camera.       *)
(***************************************************************************)
NextClients == NextControl \/ NextConfig

SpecClients == Init /\ [][NextClients]_vars

\* The request is addressed to the host ip.
AddressedTo(request, ip) ==
    LET prefix == "http://" \o ip \o "/"
    IN  /\ Len(request.url) >= Len(prefix)
        /\ SubSeq(request.url, 1, Len(prefix)) = prefix

\* C15: the endpoint target (address, user, password) is the one given to
\* the constructor for the whole life of the client: no operation,
\* successful or failing, changes it, and every request of every operation
\* is addressed to that address and signed with that user and password.
C15_EndpointTargetFixed ==
    [][/\ cam' = cam
       /\ \A i \in 1..Len(sent') :
              /\ AddressedTo(sent'[i], cam.ip)
              /\ sent'[i].auth.user = cam.user
              /\ sent'[i].auth.password = cam.password]_vars

\* An operation that failed was followed by a two-request operation whose
\* requests both went to the address of the constructor.
C15_Witness ==
    /\ call.op = "create_user"
    /\ Len(sent) = 2
    /\ call.replies[2].status = 500
    /\ AddressedTo(sent[2], "10.0.0.7")
    /\ sent[2].auth = [user |-> "root", password |-> "pass"]

\* C19: constructing a client sends no request and gives the caller the
\* client, whatever the state of the device; requests, and with them the
\* device's replies (a rejection of the credentials among them), exist only
\* once an operation has been called.
C19_ConstructorSendsNothing ==
    /\ (call.op = "__init__") <=> (sent = <<>>)
    /\ call.op = "__init__" =>
           /\ call.replies = <<>>
           /\ result = Return(None)
           /\ alive
    /\ call.op # "__init__" => Len(call.replies) = Len(sent)

\* The client has been constructed and no operation has been called.
C19_Witness ==
    /\ call.op = "__init__"
    /\ cam = [ip |-> "10.0.0.7", user |-> "root", password |-> "pass"]
    /\ sent = <<>>
    /\ alive

\* C20: every request carries digest credentials built from the stored
\* user and password and nothing else that identifies the caller, and a
\* call repeated with the same arguments sends the request of the call
\* before it whatever the device replied to that call: nothing of an
\* earlier reply is kept and sent again.
C20_CredentialsBuiltPerRequest ==
    [][/\ \A i \in 1..Len(sent') :
              /\ DOMAIN sent'[i] = {"url", "auth", "params"}
              /\ sent'[i].auth = [user |-> cam.user, password |-> cam.password]
       /\ (/\ call'.op = call.op
           /\ call'.args = call.args
           /\ clock' = clock
           /\ sent # <<>>)
              => sent'[1] = sent[1]]_vars

\* An operation is called after a call the device answered with 401.
C20_Witness ==
    /\ call.op = "set_date"
    /\ call.replies[1].status = 401
    /\ alive
    /\ sent[1].auth = [user |-> "root", password |-> "pass"]

(***************************************************************************)
(* Properties of the preset listings.                                      *)
(***************************************************************************)
OnvifPresetOps == {"get_preset", "set_preset", "remove_preset", "go_to_preset"}

VapixPresetOps == {"list_all_preset", "list_preset_device"}

PresetNamesOf(presets) == {presets[i].Name : i \in 1..Len(presets)}

\* What a preset operation called now gives its caller, read off the
\* presets the camera holds now.
ResultOn(presets, op) ==
    CASE op = "get_preset" ->
            Return([i \in 1..Len(presets) |-> <<i - 1, presets[i].Name>>])
      [] op = "list_all_preset" ->
            Return([i \in 1..Len(presets) |-> <<DigitsVal(presets[i].token), presets[i].Name>>])
      [] op = "list_preset_device" ->
            Return(Response(200, PresetListing(presets)))

\* C16: no preset list is kept in the client.  Every call of a listing
\* operation (list_all_preset, list_preset_device; get_preset and the
\* lookups of set_preset, remove_preset and go_to_preset once the ONVIF
\* client is started) first sends a listing query, and what it returns or
\* does follows the presets the camera holds at that call, whatever an
\* earlier call was told.
C16_ListingsAreFresh ==
    [][(/\ ~(call' = call /\ sent' = sent /\ result' = result)
        /\ \/ call'.op \in VapixPresetOps
           \/ call'.op \in OnvifPresetOps /\ onvif.camera_ptz # None)
          => /\ Len(sent') >= 1
             /\ call'.op \in OnvifPresetOps
                    => /\ sent'[1].operation = "GetPresets"
                       /\ call'.replies[1] = device.presets
             /\ call'.op \in VapixPresetOps
                    => /\ sent'[1].params["query"] \in {"presetposall", "presetposcam"}
                       /\ call'.replies[1].text = PresetListing(device.presets)
             /\ call'.op \in {"get_preset", "list_all_preset", "list_preset_device"}
                    => result' = ResultOn(device.presets, call'.op)
             /\ call'.op = "set_preset"
                    => (Len(sent') = 2 <=>
                           call'.args.preset_name[1] \notin PresetNamesOf(device.presets))
             /\ call'.op = "remove_preset"
                    => (Len(sent') = 2 <=>
                           call'.args.preset_name[1] \in PresetNamesOf(device.presets))
             /\ call'.op = "go_to_preset"
                    => (Len(sent') = 2 <=>
                           call'.args.preset_position[1] \in PresetNamesOf(device.presets))]_vars

\* A listing shows the camera's presets after the preset it had at first
\* was removed and another was stored.
C16_Witness ==
    /\ call.op \in {"get_preset", "list_all_preset"}
    /\ device.presets = <<Preset("2", "Dock")>>
    /\ result \in {Return(<<<<0, "Dock">>>>), Return(<<<<2, "Dock">>>>)}

(***************************************************************************)
(* Properties of overlapping calls.                                        *)
(***************************************************************************)
\* A request without the time it was built at.
Untimed(request) ==
    [url |-> request.url, auth |-> request.auth,
     params |-> [k \in DOMAIN request.params \ {"timestamp"} |-> request.params[k]]]

\* C17: whatever the other callers of the same client do and in whatever
\* order the steps of the calls fall, the request a call sends is the one
\* its own arguments, the stored target and the clock at its start give,
\* and its result is the one its own arguments and its own reply give.
C17_CallsShareNothing ==
    \A t \in Threads :
        /\ tasks[t].pc \in {"built", "waiting", "done"}
               => /\ Untimed(tasks[t].request)
                         = Untimed(Invoke(tasks[t].op, tasks[t].args, NoResponse).request)
                  /\ tasks[t].request.params["timestamp"] <= clock
        /\ tasks[t].pc \in {"waiting", "done"} => tasks[t].wire = tasks[t].request
        /\ tasks[t].pc = "done"
               => tasks[t].outcome
                      = Invoke(tasks[t].op, tasks[t].args, tasks[t].resp).outcome

\* Two calls overlap and end in the other order than they began: the
\* call built later has its result while the earlier one still waits.
C17_Witness ==
    /\ tasks[1].pc = "waiting"
    /\ tasks[2].pc = "done"
    /\ tasks[1].op = "stop_move"
    /\ tasks[2].op = "get_speed"
    /\ tasks[1].wire.params["timestamp"] < tasks[2].wire.params["timestamp"]
    /\ tasks[2].outcome = Return(100)

(***************************************************************************)
(* Properties of concurrent creation.                                      *)
(***************************************************************************)
\* The names a listing reply of the camera holds.
NamesListed(op, listing) ==
    IF op = "create_user"
    THEN UNION {{l[i] : i \in 1..Len(l)} :
                   l \in {u \in UserLists : UserListing(u) = listing.text}}
    ELSE UNION {{l[i] : i \in 1..Len(l)} :
                   l \in {q \in ProfileLists : ProfileListing(q) = listing.text}}

\* C18: the existence check and the add request of create_user and
\* create_profile are two requests, and whether the add request is sent
\* is decided by the listing the client got earlier alone, not by what
\* the camera holds when the add request is sent.
C18_AddDecidedByEarlierListing ==
    \A t \in Threads :
        tasks[t].pc = "done" =>
            /\ tasks[t].requests[1].params["action"] \in {"get", "list"}
            /\ tasks[t].replies[1] = tasks[t].listing
            /\ (Len(tasks[t].requests) = 2)
                   <=> (tasks[t].name \notin NamesListed(tasks[t].op, tasks[t].listing))
            /\ Len(tasks[t].requests) = 2
                   => tasks[t].requests[2].params["action"] = "add"

\* The race: both clients listed the accounts before either added, both
\* found joe absent and both sent the add request for joe.
C18_Witness ==
    /\ tasks[1].pc = "done"
    /\ tasks[2].pc = "done"
    /\ tasks[1].op = "create_user" /\ tasks[1].name = "joe"
    /\ tasks[2].op = "create_user" /\ tasks[2].name = "joe"
    /\ tasks[1].listing = tasks[2].listing
    /\ Len(tasks[1].requests) = 2
    /\ Len(tasks[2].requests) = 2
    /\ tasks[1].requests[2].params["user"] = "joe"
    /\ tasks[2].requests[2].params["user"] = "joe"

(***************************************************************************)
(* Properties of the primitive.                                            *)
(***************************************************************************)
BaseKeys == {"camera", "html", "timestamp"}

\* C21: every request of _camera_command carries camera=1, html=no and
\* the whole second of the clock at the call as timestamp, whatever the
\* payload; a payload's own value for one of these keys is replaced by
\* the base value, and the payload's other keys are sent as given.
C21_BaseParametersWin ==
    [][(clock' = clock /\ call'.op = "_camera_command") =>
          /\ Len(sent') = 1
          /\ BaseKeys \subseteq DOMAIN sent'[1].params
          /\ sent'[1].params["camera"] = "1"
          /\ sent'[1].params["html"] = "no"
          /\ sent'[1].params["timestamp"] = clock
          /\ \A k \in DOMAIN call'.args \ BaseKeys :
                 /\ k \in DOMAIN sent'[1].params
                 /\ sent'[1].params[k] = call'.args[k][1]
          /\ DOMAIN sent'[1].params \subseteq BaseKeys \cup DOMAIN call'.args]_vars

\* A payload with its own camera, html and timestamp was sent with the
\* base values in their place.
C21_Witness ==
    /\ call.op = "_camera_command"
    /\ DOMAIN call.args = {"camera", "html", "timestamp", "speed"}
    /\ call.args["camera"] = Some("2")
    /\ sent[1].params["camera"] = "1"
    /\ sent[1].params["html"] = "no"
    /\ sent[1].params["timestamp"] = 1
    /\ sent[1].params["speed"] = "50"


(***************************************************************************)
(* Properties of the existence checks and of the operations they guard.    *)
(***************************************************************************)
\* C22: create_profile reports "already exists" only when the listing
\* holds the profile; in particular not when the listing request was
\* answered with a status other than 200.
C22_AlreadyExistsOnlyWhenListed ==
    (/\ call.op = "create_profile"
     /\ result.kind = "return"
     /\ Contains(result.val.s, "already exists"))
        => /\ Listing.status = 200
           /\ call.args.name[1] \in ListedProfiles(Listing.text)

\* The action parameter of the request each guarded operation sends.
ActionOf(op) == IF op = "update_user" THEN "update" ELSE "remove"

\* C23: update_user and remove_user first list the users; for a name the
\* listing lacks they return a "does not exist" message and send no
\* update/remove request; for a listed name they send exactly one
\* update/remove request, after the check.
C23_UpdateRemoveCheckFirst ==
    call.op \in {"update_user", "remove_user"} =>
        LET user == call.args.user[1]
        IN  /\ Len(sent) >= 1
            /\ sent[1].url = "http://" \o cam.ip \o "/axis-cgi/pwdgrp.cgi"
            /\ sent[1].params = [action |-> "get"]
            /\ (Listing.status = 200 /\ user \notin ListedUsers(Listing.text))
                   => /\ Len(sent) = 1
                      /\ result.kind = "return"
                      /\ Contains(result.val.s, "does not exist")
            /\ (Listing.status = 200 /\ user \in ListedUsers(Listing.text))
                   => /\ Len(sent) = 2
                      /\ sent[2].url = "http://" \o cam.ip \o "/axis-cgi/pwdgrp.cgi"
                      /\ sent[2].params["action"] = ActionOf(call.op)
                      /\ sent[2].params["user"] = user
            /\ \A i \in 1..Len(sent) :
                   sent[i].params["action"] = ActionOf(call.op)
                       => /\ i = 2
                          /\ Listing.status = 200
                          /\ user \in ListedUsers(Listing.text)

C23_Witness ==
    /\ call.op = "remove_user"
    /\ call.args.user = Some("jo")
    /\ Listing = Response(200, "admin=\"root\"\r\nusers=\"root,joe\"\r\n")
    /\ Len(sent) = 1
    /\ result = Return(PyStr("jodoes not exists."))

\* C24: for a listing answered with 200, check_user returns 1 exactly when
\* the name is a whole entry of the comma-separated names of a line
\* holding "users=", and 0 otherwise: a prefix of a listed name, or a name
\* found only in a line without "users=", gives 0.
C24_CheckUserWholeEntry ==
    (call.op = "check_user" /\ Listing.status = 200) =>
        result = Return(PyInt(IF call.args.name[1] \in ListedUsers(Listing.text)
                              THEN 1 ELSE 0))

C24_Witness ==
    /\ call.op = "check_user"
    /\ \/ /\ call.args.name = Some("jo")
          /\ Listing = Response(200, "admin=\"root\"\r\nusers=\"root,joe\"\r\n")
       \/ /\ call.args.name = Some("ann")
          /\ Listing = Response(200, "admin=\"ann\"\nusers=\"root\"\n")
    /\ result = Return(PyInt(0))

\* C25: for a listing answered with 200, check_profile returns 1 exactly
\* when some line's text after "Name=" equals the name, whether the lines
\* end with "\n" or with "\r\n", and 0 otherwise.
C25_CheckProfileAnyLineEnding ==
    (call.op = "check_profile" /\ Listing.status = 200) =>
        result = Return(PyInt(IF call.args.name[1] \in ListedProfiles(Listing.text)
                              THEN 1 ELSE 0))

\* The security groups the documentation gives for each sgroup argument.
ExpectedSgrp(sgroup) ==
    CASE sgroup = Some("admin") -> Some("admin:operator:viewer:ptz")
      [] sgroup = Some("operator") -> Some("operator:viewer:ptz")
      [] sgroup = Some("ptz") -> Some("viewer:ptz")
      [] OTHER -> sgroup

\* The groups a colon-separated sgrp value names.
GroupsOf(sgrp) == {Split(sgrp, ":")[i] : i \in 1..Len(Split(sgrp, ":"))}

\* C26: create_user and update_user send the same expansion of sgroup:
\* admin, operator and ptz are expanded, any other value (viewer, or none)
\* is sent as given, and the expansions are nested: admin's holds
\* operator's, which holds ptz's, which holds viewer.
C26_SameSgroupExpansion ==
    (call.op \in {"create_user", "update_user"} /\ Len(sent) = 2) =>
        LET expected == ExpectedSgrp(call.args.sgroup)
            params   == sent[2].params
        IN  /\ expected = None => "sgrp" \notin DOMAIN params
            /\ expected # None =>
                   /\ "sgrp" \in DOMAIN params
                   /\ params["sgrp"] = expected[1]
                   /\ GroupsOf(params["sgrp"]) \in
                          {{"viewer"}, {"viewer", "ptz"}, {"operator", "viewer", "ptz"},
                           {"admin", "operator", "viewer", "ptz"}}
                   /\ call.args.sgroup[1] \in GroupsOf(params["sgrp"])

C26_Witness ==
    /\ call.op = "update_user"
    /\ call.args.sgroup = Some("ptz")
    /\ Len(sent) = 2
    /\ sent[2].params["sgrp"] = "viewer:ptz"

(***************************************************************************)
(* Properties of the ONVIF preset operations.                              *)
(***************************************************************************)
NamesDistinct(presets) ==
    \A i, j \in 1..Len(presets) : i # j => presets[i].Name # presets[j].Name

\* C27: while one ONVIF client alone edits the presets, no two presets of
\* the camera bear the same name, and a set_preset whose name the listing
\* holds sends no SetPreset request and returns None.
C27_NoSecondPresetOfAName ==
    /\ NamesDistinct(device.presets)
    /\ (call.op = "set_preset" /\ result.kind = "return")
           => /\ Len(sent) >= 1
              /\ sent[1].operation = "GetPresets"
              /\ NamesDistinct(call.replies[1])
              /\ IF call.args.preset_name[1] \in PresetNamesOf(call.replies[1])
                 THEN /\ Len(sent) = 1
                      /\ result = Return(None)
                 ELSE /\ Len(sent) = 2
                      /\ sent[2].operation = "SetPreset"
                      /\ sent[2].PresetName = call.args.preset_name

C27_Witness ==
    /\ call.op = "set_preset"
    /\ call.args.preset_name = Some("Dock")
    /\ Len(sent) = 1
    /\ call.replies[1] = <<Preset("1", "Entrance"), Preset("2", "Dock")>>
    /\ sent = <<OnvifRequest("GetPresets", Some("profile_1_h264"), None, None)>>
    /\ result = Return(None)
    /\ device.presets = <<Preset("1", "Entrance"), Preset("2", "Dock")>>

\* The requests of a call that carry the given operation.
RequestsOf(operation) == {i \in 1..Len(sent) : sent[i].operation = operation}

SoapOf(op) == IF op = "remove_preset" THEN "RemovePreset" ELSE "GotoPreset"

\* The argument of remove_preset and go_to_preset.
NameAsked == IF call.op = "remove_preset" THEN call.args.preset_name[1]
             ELSE call.args.preset_position[1]

\* C28: remove_preset and go_to_preset act on the first preset, in the
\* order of the listing, whose name equals the argument: exactly one
\* RemovePreset/GotoPreset request with that preset's token; when no
\* preset bears the name they send no such request and return None.
C28_ActsOnFirstPresetOfTheName ==
    (call.op \in {"remove_preset", "go_to_preset"} /\ result.kind = "return") =>
        LET listing == call.replies[1]
            named   == {i \in 1..Len(listing) : listing[i].Name = NameAsked}
        IN  /\ Len(sent) >= 1
            /\ sent[1].operation = "GetPresets"
            /\ named = {} => /\ Len(sent) = 1
                             /\ result = Return(None)
            /\ \A i \in named :
                   (\A j \in named : i <= j)
                       => /\ Len(sent) = 2
                          /\ RequestsOf(SoapOf(call.op)) = {2}
                          /\ sent[2].PresetToken = Some(listing[i].token)

C28_Witness ==
    /\ call.op = "remove_preset"
    /\ call.args.preset_name = Some("Dock")
    /\ Len(sent) = 2
    /\ call.replies[1] = <<Preset("2", "Dock"), Preset("1", "Dock")>>
    /\ sent[2].PresetToken = Some("2")
    /\ device.presets = <<Preset("1", "Dock")>>

OnvifOps ==
    {"absolute_move", "continuous_move", "relative_move", "stop_move",
     "set_home_position", "go_home_position", "get_ptz",
     "get_preset", "set_preset", "remove_preset", "go_to_preset"}

\* C29: only a camera_start that succeeds sets the PTZ service and the
\* media profile.  Every other ONVIF operation leaves them alone; called
\* before any successful camera_start it raises and sends no request;
\* called after one, each request it sends carries the token of the
\* profile the most recent successful camera_start selected, the first of
\* the profiles the camera listed then.
C29_OperationsUseStartedProfile ==
    [][device'.media_profiles = device.media_profiles =>
          IF call'.op = "camera_start"
          THEN IF result'.kind = "return"
               THEN /\ onvif'.camera_ptz # None
                    /\ onvif'.camera_media_profile = Some(device.media_profiles[1])
               ELSE onvif' = onvif
          ELSE /\ call'.op \in OnvifOps
               /\ onvif' = onvif
               /\ onvif.camera_ptz = None
                      => /\ sent' = <<>>
                         /\ result'.kind = "raise"
               /\ onvif.camera_ptz # None
                      => /\ Len(sent') >= 1
                         /\ \A i \in 1..Len(sent') :
                                sent'[i].ProfileToken = onvif.camera_media_profile]_vars

C29_Witness ==
    /\ call.op = "set_home_position"
    /\ onvif.camera_media_profile = Some("profile_2_jpeg")
    /\ device.media_profiles = <<"profile_1_h264">>
    /\ Len(sent) = 2
    /\ sent[1].ProfileToken = Some("profile_2_jpeg")
    /\ sent[2] = MoveRequest("Stop", Some("profile_2_jpeg"), None)

(***************************************************************************)
(* Properties of the example program.                                      *)
(***************************************************************************)
CommandKeys == {k \in Keys : event_keyboard(k).op # ""}

\* C30: in the example every camera command is issued by the capture
\* thread while it handles a key, one request that the thread waits for;
\* once ESC was handled no command is issued any more, the thread neither
\* shows a frame nor polls the keyboard again, and it ends at the test
\* that follows its next frame read.
C30_EscEndsWorker ==
    /\ [][~(call' = call /\ sent' = sent /\ result' = result)
              => /\ worker.pc = "key"
                 /\ worker.k \in CommandKeys
                 /\ worker.exit_program = 0
                 /\ Len(sent') = 1
                 /\ worker'.pc \in {"read", "done"}]_vars
    /\ [](worker.exit_program = 1 => worker.pc \in {"read", "test", "done"})
    /\ [][worker.exit_program = 1
              => /\ UNCHANGED <<call, sent, result>>
                 /\ worker.pc = "test" => worker'.pc = "done"]_vars
    /\ (worker.exit_program = 1 ~> worker.pc = "done")

C30_Witness ==
    /\ worker.exit_program = 1
    /\ worker.pc = "done"
    /\ worker.k = 27
    /\ call.op = "relative_move"
    /\ Len(sent) = 1

====
